---- MODULE Spec2Model ----
(***************************************************************************)
(* Koog-Luxor9 integration core: the LLM router (provider registry and     *)
(* selector), the memory manager (Redis cache + PostgreSQL store), the     *)
(* reference intelligence agent and the agent bus (task dispatcher).       *)
(*                                                                         *)
(* Costs and budgets are integers in thousandths of a cost unit            *)
(* (costPerToken 0.03 is 30), so that the router's arithmetic is exact.    *)
(***************************************************************************)
EXTENDS Integers, Sequences, FiniteSets, TLC

(***************************************************************************)
(* Bounds of the model.                                                    *)
(***************************************************************************)
\* longest llm_ranking a policy carries
MaxRank == 2
\* most selectOptimalLLM calls the observed caller makes
MaxCalls == 2
\* concurrent callers of updateConversationHistory
NAppenders == 2
\* most rows of conversation_history
MaxHistory == 3
\* largest limit a search passes
MaxLimit == 2

(***************************************************************************)
(* Values.                                                                 *)
(***************************************************************************)
None == "none"

\* names a configuration may register (LLMRouter constructor, config.providers)
\* and a policy may rank
ProviderNames == {"local", "gpt4", "claude"}
\* costPerToken, in thousandths
Costs == {1, 30}
\* latencyMs (small, so that the exact score comparison stays within 32 bits)
Latencies == {5, 20}
\* policy.cost_budget, in thousandths: nothing fits, cost 1 fits, costs 1 and 15 fit
Budgets == {0, 10, 20}
Strategies == {"cost", "latency", "quality", "hybrid", "other"}

Rankings == UNION {[1..n -> ProviderNames] : n \in 1..MaxRank}
Policies == [llm_ranking : Rankings, cost_budget : Budgets]

\* the descriptors a configuration may give a provider
Descriptors(name) ==
    IF name = "claude"
    THEN [costPerToken : {15}, latencyMs : {10}, available : {TRUE}]
    ELSE [costPerToken : Costs, latencyMs : Latencies, available : BOOLEAN]

\* the registries a configuration may build: local and gpt4 with any
\* descriptor, claude registered or not
Registries ==
    UNION {{f \in [names -> UNION {Descriptors(n) : n \in names}] :
               \A n \in names : f[n] \in Descriptors(n)} :
           names \in {{"local", "gpt4"}, ProviderNames}}

\* the policies of the other callers of the router: one ranked name each
OtherPolicies == {[llm_ranking |-> <<n>>, cost_budget |-> b] : n \in ProviderNames, b \in {0}}

VARIABLES
    providers,        \* LLMRouter.providers: name -> descriptor
    routingStrategy,  \* LLMRouter.config.routingStrategy
    currentProvider,  \* LLMRouter.currentProvider
    request,          \* the policy the observed caller passes to selectOptimalLLM
    answers           \* the observed caller's selectOptimalLLM calls so far, in order: what
                      \* each returned or threw, and whether it found the recorded current
                      \* provider moved since this caller's previous call

routerState == <<providers, routingStrategy, currentProvider>>
routerCaller == <<request, answers>>

VARIABLES
    cache,            \* Redis: key -> string, for the keys that hold an unexpired value
    taskResults,      \* PostgreSQL table task_results: task_id -> row
    conversations,    \* PostgreSQL table conversations: conversation_id -> row
    conversationHistory, \* PostgreSQL table conversation_history: its rows, in insertion order
    embeddings,       \* PostgreSQL table vector_embeddings: id -> row
    clients,          \* the callers of the MemoryManager: for each, the call it has in
                      \* progress or made last
    persisted         \* per task id, the response of the last storeTaskResult call that
                      \* returned, as <<response>>; <<>> when none did or a later one threw

storeState == <<cache, taskResults, conversations, conversationHistory, embeddings>>
storeCallers == <<clients, persisted>>

VARIABLES
    agents,           \* Luxor9AgentBus.agents: agent id -> the agent registered under it
    activeTasks,      \* Luxor9AgentBus.activeTasks: task id -> the submitTask call whose
                      \* race promise the map holds
    submits,          \* the callers of submitTask: for each, the call it made and how far
                      \* the call has run
    emitted,          \* the taskCompleted and taskFailed events the bus has emitted, in order,
                      \* each with the active set its listeners found
    metrics           \* MetricsCollector: config.enabled and the metrics map

busState == <<agents, activeTasks, submits, emitted, metrics>>

VARIABLES
    ops,              \* the callers of the bus's other operations (streamTask, cancelTask,
                      \* getTaskStatus, healthCheck, shutdown): for each, the call it has in
                      \* progress or made last
    connections       \* whether the Redis and the PostgreSQL connection are still open

opsState == <<ops, connections>>

vars == <<routerState, routerCaller, storeState, storeCallers, busState, opsState>>

\* both connections as initialize() leaves them
AllOpen == [redis |-> TRUE, pg |-> TRUE]

\* a property that is not set
Undefined == "undefined"
\* the JSON value null
Null == "null"
\* the object {}
EmptyObject == "{}"

TaskIds == {"t1", "t2"}
\* the task ids the store's caller uses
StoreTaskIds == {"t1"}

ConversationIds == {"c1", "c2"}
TenantIds == {"acme", "globex"}
ReferenceAgentId == "luxor-intelligence-v1"

\* config.postgres.vectorDimensions
VectorDimensions == 2
\* the vectors callers pass; <<1>> has the wrong dimension
Vectors == {<<0, 0>>, <<2, 0>>, <<1>>}
EmbeddingIds == {"e1", "e2", "e3"}
EmbeddingContents == {"x", "y"}

\* response.metadata as the agents and the bus fill it (execution_time_ms is
\* wall-clock time and is left out)
ZeroMetadata(llm) == [llm_used |-> llm, tokens_consumed |-> 0, cost |-> 0]
UsedMetadata(llm) == [llm_used |-> llm, tokens_consumed |-> 3, cost |-> 9]

\* the properties of a LuxorAgentResponse, in the order the code writes them
ResponseKeys == {"task_id", "status", "result", "error", "metadata"}

Response(id, status, result, error, metadata) ==
    [k \in ResponseKeys |->
        CASE k = "task_id"  -> id
          [] k = "status"   -> status
          [] k = "result"   -> result
          [] k = "error"    -> error
          [] k = "metadata" -> metadata]

\* the tasks a caller of the store may hand to updateConversationHistory
HistoryTasks ==
    {[task_id |-> t, tenant_id |-> "acme", agent_id |-> ReferenceAgentId] : t \in TaskIds}

\* the embeddings a caller of the store may hand to storeEmbedding
EmbeddingInputs ==
    [id : EmbeddingIds, content : EmbeddingContents, vector : Vectors, metadata : {"tags"}]

\* the responses a caller of the store may hand to storeTaskResult(id, .)
StoreResponses(id) ==
    {Response(id, st, res, err, md) :
        st \in {"completed", "failed"},
        res \in {Undefined, Null, "summary"},
        err \in {Undefined, "boom"},
        md \in {ZeroMetadata("none"), UsedMetadata("gpt4")}}

(***************************************************************************)
(* Array.prototype.sort with a comparator: a stable sort.  cmp[i, j] is    *)
(* the comparator's value on the elements at positions i and j; the result *)
(* is the sequence of positions in sorted order.                           *)
(***************************************************************************)
RECURSIVE InsertStable(_, _, _)
InsertStable(sorted, i, cmp) ==
    IF sorted = <<>> THEN <<i>>
    ELSE IF cmp[sorted[Len(sorted)], i] <= 0
         THEN Append(sorted, i)
         ELSE Append(InsertStable(SubSeq(sorted, 1, Len(sorted) - 1), i, cmp),
                     sorted[Len(sorted)])

RECURSIVE SortPrefix(_, _)
SortPrefix(n, cmp) ==
    IF n = 0 THEN <<>> ELSE InsertStable(SortPrefix(n - 1, cmp), n, cmp)

\* s.sort(comparator), as the sorted sequence
StableSort(s, cmp) ==
    LET order == SortPrefix(Len(s), cmp)
    IN  [k \in 1..Len(s) |-> s[order[k]]]

\* s.filter(p), for p given as the set of positions kept
RECURSIVE FilterSeq(_, _)
FilterSeq(s, keep) ==
    IF s = <<>> THEN <<>>
    ELSE LET rest == FilterSeq(SubSeq(s, 1, Len(s) - 1), keep)
         IN  IF Len(s) \in keep THEN Append(rest, s[Len(s)]) ELSE rest

(***************************************************************************)
(* LLMRouter                                                               *)
(***************************************************************************)
\* the ranked names that are registered, available or not
RegisteredProviders(provs, ranking) ==
    FilterSeq(ranking, {i \in 1..Len(ranking) : ranking[i] \in DOMAIN provs})

\* policy.llm_ranking.map(name => providers.get(name)).filter(p => p?.available === true),
\* as the names of the descriptors kept, in rank order
AvailableProviders(provs, ranking) ==
    FilterSeq(ranking,
              {i \in 1..Len(ranking) :
                  ranking[i] \in DOMAIN provs /\ provs[ranking[i]].available})

\* selectByCost without the sort: the first candidate within the budget
SelectByCostUnsorted(provs, cands, budget) ==
    LET within == FilterSeq(cands, {i \in 1..Len(cands) : provs[cands[i]].costPerToken <= budget})
    IN  IF within # <<>> THEN within[1] ELSE cands[1]

\* selectByCost falling back on the cheapest candidate instead of the first
SelectByCostOrCheapest(provs, cands, budget) ==
    StableSort(cands,
        [i \in 1..Len(cands), j \in 1..Len(cands) |->
            provs[cands[i]].costPerToken - provs[cands[j]].costPerToken])[1]

SelectByCost(provs, cands, budget) ==
    LET within == FilterSeq(cands, {i \in 1..Len(cands) : provs[cands[i]].costPerToken <= budget})
        sorted == StableSort(within,
                     [i \in 1..Len(within), j \in 1..Len(within) |->
                         provs[within[i]].costPerToken - provs[within[j]].costPerToken])
    IN  IF sorted # <<>> THEN sorted[1] ELSE cands[1]

\* selectByLatency without the sort: the first candidate
SelectByLatencyUnsorted(provs, cands) == cands[1]

SelectByLatency(provs, cands) ==
    StableSort(cands,
        [i \in 1..Len(cands), j \in 1..Len(cands) |->
            provs[cands[i]].latencyMs - provs[cands[j]].latencyMs])[1]

SelectByQuality(provs, cands) ==
    StableSort(cands,
        [i \in 1..Len(cands), j \in 1..Len(cands) |->
            provs[cands[j]].costPerToken - provs[cands[i]].costPerToken])[1]

\* totalScore = 0.4 / (cost + 0.001) + 0.4 / (latency + 1) + 0.2 * budgetFits,
\* as the exact fraction num / den of 50 * totalScore (cost = c / 1000):
\*   20000 / (c + 1) + 20 / (latency + 1) + (10 if the cost fits the budget, else 1)
HybridScore(p, budget) ==
    LET c == p.costPerToken + 1
        l == p.latencyMs + 1
        fits == IF p.costPerToken <= budget THEN 10 ELSE 1
    IN  [num |-> 20000 * l + 20 * c + fits * c * l, den |-> c * l]

\* the sign of a.score - b.score
ScoreDiff(a, b) == a.num * b.den - b.num * a.den

\* selectByHybrid with a comparator that never answers 0: equal scores swap
SelectByHybridUnstable(provs, cands, budget) ==
    StableSort(cands,
        [i \in 1..Len(cands), j \in 1..Len(cands) |->
            IF ScoreDiff(HybridScore(provs[cands[j]], budget),
                         HybridScore(provs[cands[i]], budget)) < 0
            THEN -1 ELSE 1])[1]

SelectByHybrid(provs, cands, budget) ==
    StableSort(cands,
        [i \in 1..Len(cands), j \in 1..Len(cands) |->
            ScoreDiff(HybridScore(provs[cands[j]], budget),
                      HybridScore(provs[cands[i]], budget))])[1]

\* the switch of selectOptimalLLM on a non-empty candidate list
SelectedProvider(provs, strategy, cands, policy) ==
    CASE strategy = "cost"    -> SelectByCost(provs, cands, policy.cost_budget)
      [] strategy = "latency" -> SelectByLatency(provs, cands)
      [] strategy = "quality" -> SelectByQuality(provs, cands)
      [] strategy = "hybrid"  -> SelectByHybrid(provs, cands, policy.cost_budget)
      [] OTHER                -> cands[1]

NoProviderAvailable == "No available LLM providers"

\* selectOptimalLLM keeping the recorded current provider while it is a candidate
SelectOutcomeSticky(policy) ==
    LET cands == AvailableProviders(providers, policy.llm_ranking)
    IN  IF cands = <<>>
        THEN [ok |-> FALSE, value |-> NoProviderAvailable]
        ELSE [ok |-> TRUE,
              value |-> IF \E i \in 1..Len(cands) : cands[i] = currentProvider
                        THEN currentProvider
                        ELSE SelectedProvider(providers, routingStrategy, cands, policy)]

\* selectOptimalLLM returning the head of the ranking whatever the registry holds
SelectOutcomeUnchecked(policy) == [ok |-> TRUE, value |-> policy.llm_ranking[1]]

\* what selectOptimalLLM(policy) returns (ok) or throws
SelectOutcome(policy) ==
    LET cands == AvailableProviders(providers, policy.llm_ranking)
    IN  IF cands = <<>>
        THEN [ok |-> FALSE, value |-> NoProviderAvailable]
        ELSE [ok |-> TRUE,
              value |-> SelectedProvider(providers, routingStrategy, cands, policy)]

\* selectOptimalLLM(policy) reserving the provider it returns: the provider
\* is marked unavailable
RouterSelectReserving(policy) ==
    LET out == SelectOutcome(policy)
    IN  /\ currentProvider' = IF out.ok THEN out.value ELSE currentProvider
        /\ providers' = IF out.ok
                        THEN [providers EXCEPT ![out.value].available = FALSE]
                        ELSE providers
        /\ UNCHANGED routingStrategy

\* selectOptimalLLM(policy): the router's state after the call
RouterSelect(policy) ==
    LET out == SelectOutcome(policy)
    IN  /\ currentProvider' = IF out.ok THEN out.value ELSE currentProvider
        /\ UNCHANGED <<providers, routingStrategy>>

\* the observed caller calls selectOptimalLLM(request)
SelectOptimalLLM ==
    /\ Len(answers) < MaxCalls
    /\ RouterSelect(request)
    /\ answers' = Append(answers, [ok |-> SelectOutcome(request).ok,
                                   value |-> SelectOutcome(request).value,
                                   moved |-> /\ answers # <<>>
                                             /\ currentProvider # answers[Len(answers)].value])
    /\ UNCHANGED <<opsState, request, storeState, storeCallers, busState>>

\* another caller calls selectOptimalLLM with its own policy
SelectOptimalLLMOther ==
    /\ \E policy \in OtherPolicies : RouterSelect(policy)
    /\ UNCHANGED <<opsState, routerCaller, storeState, storeCallers, busState>>

\* LLMRouter.shutdown
RouterShutdown ==
    /\ currentProvider # None
    /\ currentProvider' = None
    /\ UNCHANGED <<opsState, providers, routingStrategy, routerCaller, storeState, storeCallers, busState>>

InitRouter ==
    /\ providers \in Registries
    /\ routingStrategy \in Strategies
    /\ currentProvider = None
    /\ request \in Policies
    /\ answers = <<>>
    /\ cache = <<>>
    /\ taskResults = <<>>
    /\ conversations = <<>>
    /\ conversationHistory = <<>>
    /\ embeddings = <<>>
    /\ clients = <<>>
    /\ persisted = <<>>
    /\ agents = <<>>
    /\ activeTasks = <<>>
    /\ submits = <<>>
    /\ emitted = <<>>
    /\ metrics = <<>>
    /\ ops = <<>>
    /\ connections = AllOpen

NextRouter ==
    \/ SelectOptimalLLM
    \/ SelectOptimalLLMOther
    \/ RouterShutdown

\* the router under a caller that repeats one policy, among other callers
SpecRouter == InitRouter /\ [][NextRouter]_vars

(***************************************************************************)
(* LLMRouter.initialize                                                    *)
(***************************************************************************)
\* the order in which a configuration lists its providers: the constructor
\* fills this.providers in that order, and initialize iterates it in that order
ProviderOrder == <<"local", "gpt4", "claude">>

\* provider.endpoint and provider.apiKey as a configuration may give them
Endpoints == {Undefined, "https://llm"}
ApiKeys == {Undefined, "key"}

\* the descriptors of a configuration that initialize is about to probe
ConfiguredDescriptors ==
    [costPerToken : {1}, latencyMs : {5}, available : BOOLEAN,
     endpoint : Endpoints, apiKey : ApiKeys]

\* the registries of such a configuration: one provider or two
ConfiguredRegistries ==
    UNION {[names -> ConfiguredDescriptors] : names \in {{"local"}, {"local", "gpt4"}}}

\* the policies the caller passes once the router is initialized
ProbePolicies == {p \in Policies : p.cost_budget = 10}

\* the keys of this.providers, in insertion order
Registered == SelectSeq(ProviderOrder, LAMBDA n : n \in DOMAIN providers)

\* a probe that looks at the endpoint alone
HasEndpoint(provider) == provider.endpoint # Undefined

\* checkProviderHealth(provider)
CheckProviderHealth(provider) ==
    provider.endpoint # Undefined /\ provider.apiKey # Undefined

\* initialize() is called: the loop is about to probe the first provider
RouterInitialize(k) ==
    /\ ops[k].pc = "idle"
    /\ ops' = [ops EXCEPT ![k] = [@ EXCEPT !.pc = "probing", !.next = 1]]
    /\ UNCHANGED <<connections, routerState, routerCaller, storeState, storeCallers, busState>>

\* one iteration of the loop: the probe's answer becomes provider.available
RouterInitializeProbe(k) ==
    /\ ops[k].pc = "probing"
    /\ ops[k].next <= Len(Registered)
    /\ LET name == Registered[ops[k].next]
       IN  providers' = [providers EXCEPT
                            ![name].available = CheckProviderHealth(providers[name])]
    /\ ops' = [ops EXCEPT ![k] = [@ EXCEPT !.next = @ + 1]]
    /\ UNCHANGED <<connections, routingStrategy, currentProvider, routerCaller,
                   storeState, storeCallers, busState>>

\* the loop is over: initialize() resolves
RouterInitializeReturns(k) ==
    /\ ops[k].pc = "probing"
    /\ ops[k].next > Len(Registered)
    /\ ops' = [ops EXCEPT ![k] = [@ EXCEPT !.pc = "returned"]]
    /\ UNCHANGED <<connections, routerState, routerCaller, storeState, storeCallers, busState>>

\* a router as constructed from a configuration, and a caller of initialize
InitInitialize ==
    /\ providers \in ConfiguredRegistries
    /\ routingStrategy = "cost"
    /\ currentProvider = None
    /\ request \in ProbePolicies
    /\ answers = <<>>
    /\ cache = <<>>
    /\ taskResults = <<>>
    /\ conversations = <<>>
    /\ conversationHistory = <<>>
    /\ embeddings = <<>>
    /\ clients = <<>>
    /\ persisted = <<>>
    /\ agents = <<>>
    /\ activeTasks = <<>>
    /\ submits = <<>>
    /\ emitted = <<>>
    /\ metrics = <<>>
    /\ ops = [k \in {1} |-> [op |-> "initialize", pc |-> "idle", next |-> 0]]
    /\ connections = AllOpen

NextInitialize ==
    \/ \E k \in DOMAIN ops : RouterInitialize(k)
    \/ \E k \in DOMAIN ops : RouterInitializeProbe(k)
    \/ \E k \in DOMAIN ops : RouterInitializeReturns(k)
    \/ SelectOptimalLLM

\* the router while it is initialized, under a caller of selectOptimalLLM
SpecInitialize == InitInitialize /\ [][NextInitialize]_vars

(***************************************************************************)
(* MemoryManager: task results                                             *)
(***************************************************************************)
\* the properties of a LuxorAgentResponse that may be left unset
OptionalKeys == {"result", "error"}

\* JSON.stringify(object): the properties whose value is not undefined
Stringify(object) ==
    [k \in {k \in DOMAIN object : ~(k \in OptionalKeys /\ object[k] = Undefined)} |->
        object[k]]

\* JSON.parse(text) read as a LuxorAgentResponse: a missing property reads undefined
ParseResponse(text) ==
    [k \in ResponseKeys |-> IF k \in DOMAIN text THEN text[k] ELSE Undefined]

\* a value that is null or undefined
NullOrUndefined(value) == value \in {Undefined, Null}

\* a value that is falsy in `value || other`
Falsy(value) == value \in {Undefined, Null, ""}

\* redis.setex(key, 3600, value)
Setex(key, value) ==
    [k \in DOMAIN cache \cup {key} |-> IF k = key THEN value ELSE cache[k]]

TaskResultKey(taskId) == <<"task_result", taskId>>

\* INSERT INTO task_results ... ON CONFLICT (task_id) DO UPDATE SET output, metadata
\* (agent_id, tenant_id and input are the constants 'unknown', 'default', {})
UpsertTaskResult(taskId, response) ==
    [t \in DOMAIN taskResults \cup {taskId} |->
        IF t = taskId
        THEN [output |-> IF Falsy(response["result"]) THEN EmptyObject ELSE response["result"],
              metadata |-> response["metadata"]]
        ELSE taskResults[t]]

\* a response built from a row of task_results with status failed
RowResponseFailed(taskId, row) ==
    Response(taskId, "failed", row.output, Undefined, row.metadata)

\* the response getTaskResult builds from a row of task_results
RowResponse(taskId, row) ==
    Response(taskId, "completed", row.output, Undefined, row.metadata)

RedisError == "redis: connection is closed"
PgError == "pg: connection terminated"

Idle == [op |-> "idle", pc |-> "returned"]

\* a call has ended when it returned or threw
Ended(call) == call.pc \in {"returned", "threw"}

StoreTaskResultCall(taskId, response) ==
    [op |-> "storeTaskResult", pc |-> "setex", taskId |-> taskId, response |-> response]

GetTaskResultCall(taskId) ==
    [op |-> "getTaskResult", pc |-> "get", taskId |-> taskId]

Returned(call, value) == [call EXCEPT !.pc = "returned"] @@ [value |-> value]
Threw(call, error) == [call EXCEPT !.pc = "threw"] @@ [error |-> error]

\* One step of storeTaskResult: the awaited command completes (or fails) and
\* the call runs on to its next await.  The call after the step:
StoreTaskResultStep(call, fails) ==
    CASE call.pc = "setex" ->
            IF fails THEN Threw(call, RedisError) ELSE [call EXCEPT !.pc = "upsert"]
      [] call.pc = "upsert" ->
            IF fails THEN Threw(call, PgError) ELSE Returned(call, <<>>)

\* One step of getTaskResult; null is <<>>, a response r is <<r>>
GetTaskResultStep(call, fails) ==
    CASE call.pc = "get" ->
            IF fails THEN Returned(call, <<>>)
            ELSE IF TaskResultKey(call.taskId) \in DOMAIN cache
                 THEN Returned(call, <<ParseResponse(cache[TaskResultKey(call.taskId)])>>)
                 ELSE [call EXCEPT !.pc = "select"]
      [] call.pc = "select" ->
            IF fails \/ call.taskId \notin DOMAIN taskResults
            THEN Returned(call, <<>>)
            ELSE [call EXCEPT !.pc = "recache"]
                 @@ [built |-> RowResponse(call.taskId, taskResults[call.taskId])]
      [] call.pc = "recache" ->
            IF fails THEN Returned(call, <<>>) ELSE Returned(call, <<call.built>>)

(***************************************************************************)
(* MemoryManager: conversation history                                     *)
(***************************************************************************)
UpdateConversationHistoryCall(conversationId, task) ==
    [op |-> "updateConversationHistory", pc |-> "conversation",
     conversationId |-> conversationId, task |-> task]

\* INSERT INTO conversations ... ON CONFLICT (conversation_id) DO UPDATE SET updated_at
\* (touched: updated_at was set after the row was created)
UpsertConversation(conversationId, task) ==
    [c \in DOMAIN conversations \cup {conversationId} |->
        IF c # conversationId THEN conversations[c]
        ELSE IF c \in DOMAIN conversations
             THEN [conversations[c] EXCEPT !.touched = TRUE]
             ELSE [tenant_id |-> task.tenant_id, participants |-> <<task.agent_id>>,
                   touched |-> FALSE]]

\* the sequence numbers conversation_history holds for a conversation
SequenceNumbers(conversationId) ==
    {conversationHistory[i].sequence_number :
        i \in {i \in 1..Len(conversationHistory) :
                  conversationHistory[i].conversation_id = conversationId}}

\* the largest of a set of numbers
Max(S) == CHOOSE m \in S : \A n \in S : n <= m

\* the next sequence number taken over the whole table
NextSeqOfTable(conversationId) == Len(conversationHistory) + 1

\* SELECT COALESCE(MAX(sequence_number), 0) + 1 ... WHERE conversation_id = $1
NextSeq(conversationId) ==
    LET numbers == SequenceNumbers(conversationId)
    IN  (IF numbers = {} THEN 0 ELSE Max(numbers)) + 1

\* the foreign keys of conversation_history
HistoryKeysHold(call) ==
    /\ call.conversationId \in DOMAIN conversations
    /\ call.task.task_id \in DOMAIN taskResults

\* One step of updateConversationHistory
UpdateConversationHistoryStep(call, fails) ==
    CASE call.pc = "conversation" ->
            IF fails THEN Threw(call, PgError) ELSE [call EXCEPT !.pc = "sequence"]
      [] call.pc = "sequence" ->
            IF fails THEN Threw(call, PgError)
            ELSE [call EXCEPT !.pc = "insert"] @@ [nextSeq |-> NextSeq(call.conversationId)]
      [] call.pc = "insert" ->
            IF fails \/ ~HistoryKeysHold(call)
            THEN Threw(call, PgError)
            ELSE Returned(call, <<>>)

\* conversations after the step
ConversationsAfter(call, fails) ==
    IF ~fails /\ call.op = "updateConversationHistory" /\ call.pc = "conversation"
    THEN UpsertConversation(call.conversationId, call.task)
    ELSE conversations

\* conversation_history when the INSERT adds no row
ConversationHistoryUntouched(call, fails) == conversationHistory

\* conversation_history after the step
ConversationHistoryAfter(call, fails) ==
    IF /\ ~fails
       /\ call.op = "updateConversationHistory"
       /\ call.pc = "insert"
       /\ HistoryKeysHold(call)
    THEN Append(conversationHistory,
                [conversation_id |-> call.conversationId,
                 task_id |-> call.task.task_id,
                 sequence_number |-> call.nextSeq])
    ELSE conversationHistory

(***************************************************************************)
(* MemoryManager: embeddings                                               *)
(***************************************************************************)
StoreEmbeddingCall(embedding, tenantId) ==
    [op |-> "storeEmbedding", pc |-> "upsert", embedding |-> embedding, tenantId |-> tenantId]

SearchSimilarEmbeddingsCall(queryVector, tenantId, limit) ==
    [op |-> "searchSimilarEmbeddings", pc |-> "query",
     queryVector |-> queryVector, tenantId |-> tenantId, limit |-> limit]

\* the column embedding vector(n) takes vectors of n numbers only
FitsColumn(vector) == Len(vector) = VectorDimensions

\* the upsert that also sets tenant_id = EXCLUDED.tenant_id
UpsertEmbeddingWithTenant(embedding, tenantId) ==
    [e \in DOMAIN embeddings \cup {embedding.id} |->
        IF e # embedding.id THEN embeddings[e]
        ELSE [content |-> embedding.content,
              embedding |-> embedding.vector,
              metadata |-> embedding.metadata,
              tenant_id |-> tenantId]]

\* INSERT INTO vector_embeddings ... ON CONFLICT (id) DO UPDATE SET content, embedding, metadata
UpsertEmbedding(embedding, tenantId) ==
    [e \in DOMAIN embeddings \cup {embedding.id} |->
        IF e # embedding.id THEN embeddings[e]
        ELSE [content |-> embedding.content,
              embedding |-> embedding.vector,
              metadata |-> embedding.metadata,
              tenant_id |-> IF e \in DOMAIN embeddings
                            THEN embeddings[e].tenant_id ELSE tenantId]]

\* the order of embedding <-> $1: the square of the Euclidean distance
RECURSIVE Distance(_, _)
Distance(u, v) ==
    IF u = <<>> THEN 0
    ELSE (u[1] - v[1]) * (u[1] - v[1]) + Distance(Tail(u), Tail(v))

\* every row: the WHERE clause left out
RowsOfAnyTenant(tenantId) == DOMAIN embeddings

\* the rows WHERE tenant_id = $2
RowsOfTenant(tenantId) == {e \in DOMAIN embeddings : embeddings[e].tenant_id = tenantId}

\* ORDER BY distance LIMIT $3 over the given rows: every order the query may
\* answer in (rows at the same distance come in either order)
NearestRows(ids, queryVector, limit) ==
    LET n == IF Cardinality(ids) < limit THEN Cardinality(ids) ELSE limit
        d(e) == Distance(embeddings[e].embedding, queryVector)
    IN  {rows \in [1..n -> ids] :
            /\ \A i, j \in 1..n : i < j => rows[i] # rows[j] /\ d(rows[i]) <= d(rows[j])
            /\ \A e \in ids : (\A i \in 1..n : rows[i] # e) =>
                                 \A i \in 1..n : d(rows[i]) <= d(e)}

\* the objects searchSimilarEmbeddings maps the rows to
EmbeddingObjects(rows) ==
    [i \in 1..Len(rows) |->
        [id |-> rows[i],
         content |-> embeddings[rows[i]].content,
         vector |-> embeddings[rows[i]].embedding,
         metadata |-> embeddings[rows[i]].metadata]]

\* what a searchSimilarEmbeddings call may return
SearchResults(call) ==
    IF ~FitsColumn(call.queryVector) THEN {<<>>}
    ELSE {EmbeddingObjects(rows) :
             rows \in NearestRows(RowsOfTenant(call.tenantId), call.queryVector, call.limit)}

\* One step of storeEmbedding or searchSimilarEmbeddings
EmbeddingStep(call, fails, answer) ==
    CASE call.op = "storeEmbedding" ->
            IF fails \/ ~FitsColumn(call.embedding.vector)
            THEN Threw(call, PgError) ELSE Returned(call, <<>>)
      [] call.op = "searchSimilarEmbeddings" ->
            IF fails THEN Returned(call, <<>>) ELSE Returned(call, answer)

\* vector_embeddings after the step
EmbeddingsAfter(call, fails) ==
    IF ~fails /\ call.op = "storeEmbedding" /\ FitsColumn(call.embedding.vector)
    THEN UpsertEmbedding(call.embedding, call.tenantId)
    ELSE embeddings

(***************************************************************************)
(* MemoryManager: memory snapshots                                         *)
(***************************************************************************)
SnapshotKey(snapshotId) == <<"memory_snapshot", snapshotId>>

GetMemorySnapshotCall(snapshotId) ==
    [op |-> "getMemorySnapshot", pc |-> "get", snapshotId |-> snapshotId]

\* The one step of getMemorySnapshot; null is <<>>, a snapshot s is <<s>>
GetMemorySnapshotStep(call, fails) ==
    IF ~fails /\ SnapshotKey(call.snapshotId) \in DOMAIN cache
    THEN Returned(call, <<cache[SnapshotKey(call.snapshotId)]>>)
    ELSE Returned(call, <<>>)

(***************************************************************************)
(* MemoryManager: healthCheck and shutdown                                 *)
(***************************************************************************)
\* responded: the layers that have answered the call's commands
MemoryHealthCheckCall == [op |-> "healthCheck", pc |-> "ping", responded |-> {}]

\* One step of healthCheck: redis.ping(), then SELECT 1; the catch block turns
\* a failure of either into the answer false
MemoryHealthCheckStep(call, fails) ==
    CASE call.pc = "ping" ->
            IF fails THEN Returned(call, FALSE)
            ELSE [call EXCEPT !.pc = "select1", !.responded = {"redis"}]
      [] call.pc = "select1" ->
            IF fails THEN Returned(call, FALSE)
            ELSE Returned([call EXCEPT !.responded = {"redis", "pg"}], TRUE)

MemoryShutdownCall == [op |-> "shutdown", pc |-> "quit"]

\* One step of shutdown: redis.quit(), then pgClient.end(); the catch block
\* logs a failure of either and the call returns
MemoryShutdownStep(call, fails) ==
    CASE call.pc = "quit" ->
            IF fails THEN Returned(call, <<>>) ELSE [call EXCEPT !.pc = "end"]
      [] call.pc = "end" -> Returned(call, <<>>)

\* the command a call awaits goes to Redis (else to PostgreSQL)
UsesRedis(call) == call.pc \in {"setex", "get", "recache", "ping", "quit"}

\* the connection the awaited command needs has been closed: the command fails
Closed(call) == IF UsesRedis(call) THEN ~connections.redis ELSE ~connections.pg

\* the connections after the step
ConnectionsAfter(call, fails) ==
    IF fails \/ call.op # "shutdown" THEN connections
    ELSE IF call.pc = "quit" THEN [connections EXCEPT !.redis = FALSE]
         ELSE [connections EXCEPT !.pg = FALSE]

\* the answers the store may give to the command a call awaits
Answers(call) ==
    IF call.op = "searchSimilarEmbeddings" THEN SearchResults(call) ELSE {<<>>}

\* the call after one step of it
CallStep(call, fails, answer) ==
    CASE call.op = "storeTaskResult"           -> StoreTaskResultStep(call, fails)
      [] call.op = "getTaskResult"             -> GetTaskResultStep(call, fails)
      [] call.op = "updateConversationHistory" -> UpdateConversationHistoryStep(call, fails)
      [] call.op = "getMemorySnapshot"         -> GetMemorySnapshotStep(call, fails)
      [] call.op = "healthCheck"               -> MemoryHealthCheckStep(call, fails)
      [] call.op = "shutdown"                  -> MemoryShutdownStep(call, fails)
      [] OTHER                                 -> EmbeddingStep(call, fails, answer)

\* Redis after the step
CacheAfter(call, fails) ==
    IF fails THEN cache
    ELSE CASE call.op = "storeTaskResult" /\ call.pc = "setex" ->
                 Setex(TaskResultKey(call.taskId), Stringify(call.response))
           [] call.op = "getTaskResult" /\ call.pc = "recache" ->
                 Setex(TaskResultKey(call.taskId), Stringify(call.built))
           [] OTHER -> cache

\* task_results after the step
TaskResultsAfter(call, fails) ==
    IF ~fails /\ call.op = "storeTaskResult" /\ call.pc = "upsert"
    THEN UpsertTaskResult(call.taskId, call.response)
    ELSE taskResults

\* a caller starts storeTaskResult(taskId, response)
CallStoreTaskResult(c) ==
    /\ Ended(clients[c])
    /\ \E taskId \in StoreTaskIds :
          \E response \in StoreResponses(taskId) :
              clients' = [clients EXCEPT ![c] = StoreTaskResultCall(taskId, response)]
    /\ UNCHANGED <<opsState, storeState, persisted, routerState, routerCaller, busState>>

\* a caller starts getTaskResult(taskId)
CallGetTaskResult(c) ==
    /\ Ended(clients[c])
    /\ \E taskId \in StoreTaskIds :
          clients' = [clients EXCEPT ![c] = GetTaskResultCall(taskId)]
    /\ UNCHANGED <<opsState, storeState, persisted, routerState, routerCaller, busState>>

\* the call a caller has in progress takes its next step
ClientStep(c) ==
    /\ ~Ended(clients[c])
    /\ \E fails \in (IF Closed(clients[c]) THEN {TRUE} ELSE BOOLEAN),
          answer \in Answers(clients[c]) :
          /\ clients' = [clients EXCEPT ![c] = CallStep(clients[c], fails, answer)]
          /\ connections' = ConnectionsAfter(clients[c], fails)
          /\ cache' = CacheAfter(clients[c], fails)
          /\ taskResults' = TaskResultsAfter(clients[c], fails)
          /\ conversations' = ConversationsAfter(clients[c], fails)
          /\ conversationHistory' = ConversationHistoryAfter(clients[c], fails)
          /\ embeddings' = EmbeddingsAfter(clients[c], fails)
    /\ persisted' =
          IF clients[c].op = "storeTaskResult" /\ Ended(clients'[c])
          THEN [persisted EXCEPT ![clients[c].taskId] =
                    IF clients'[c].pc = "returned" THEN <<clients[c].response>> ELSE <<>>]
          ELSE persisted
    /\ UNCHANGED <<ops, routerState, routerCaller, busState>>

\* the hour of a cache entry's TTL passes
CacheExpire ==
    /\ \E key \in DOMAIN cache :
          cache' = [k \in DOMAIN cache \ {key} |-> cache[k]]
    /\ UNCHANGED <<opsState, taskResults, conversations, conversationHistory, embeddings,
                   storeCallers, routerState, routerCaller, busState>>

InitStore ==
    /\ cache = <<>>
    /\ taskResults = <<>>
    /\ conversations = <<>>
    /\ conversationHistory = <<>>
    /\ embeddings = <<>>
    /\ clients = [c \in {1} |-> Idle]
    /\ persisted = [t \in StoreTaskIds |-> <<>>]
    /\ providers = <<>>
    /\ routingStrategy = "other"
    /\ currentProvider = None
    /\ request = <<>>
    /\ answers = <<>>
    /\ agents = <<>>
    /\ activeTasks = <<>>
    /\ submits = <<>>
    /\ emitted = <<>>
    /\ metrics = <<>>
    /\ ops = <<>>
    /\ connections = AllOpen

NextStore ==
    \/ \E c \in DOMAIN clients : CallStoreTaskResult(c)
    \/ \E c \in DOMAIN clients : CallGetTaskResult(c)
    \/ \E c \in DOMAIN clients : ClientStep(c)
    \/ CacheExpire

\* the task-result store under one caller making one call at a time
SpecStore == InitStore /\ [][NextStore]_vars

\* the response an earlier storeTaskResult("t1", .) stored, and the response a
\* later call stores over it
FirstResponse == Response("t1", "completed", "first", Undefined, UsedMetadata("gpt4"))
SecondResponse == Response("t1", "completed", "second", Undefined, UsedMetadata("gpt4"))

\* the callers of the store: one that stores, two that fetch
Writer == "writer"
Readers == {"reader", "other reader"}

\* the writer calls storeTaskResult("t1", SecondResponse), once
CallStoreSecond(c) ==
    /\ c = Writer
    /\ clients[c] = Idle
    /\ clients' = [clients EXCEPT ![c] = StoreTaskResultCall("t1", SecondResponse)]
    /\ UNCHANGED <<opsState, storeState, persisted, routerState, routerCaller, busState>>

\* a reader calls getTaskResult("t1")
CallGetTaskResultAgain(c) ==
    /\ c \in Readers
    /\ CallGetTaskResult(c)

\* the store after storeTaskResult("t1", FirstResponse) returned, the cache
\* entry it wrote still there or expired
InitOverwrite ==
    /\ cache \in {<<>>, [k \in {TaskResultKey("t1")} |-> Stringify(FirstResponse)]}
    /\ taskResults = [t \in {"t1"} |->
                         [output |-> FirstResponse["result"],
                          metadata |-> FirstResponse["metadata"]]]
    /\ conversations = <<>>
    /\ conversationHistory = <<>>
    /\ embeddings = <<>>
    /\ clients = [c \in {Writer} \cup Readers |-> Idle]
    /\ persisted = [t \in StoreTaskIds |-> <<FirstResponse>>]
    /\ providers = <<>>
    /\ routingStrategy = "other"
    /\ currentProvider = None
    /\ request = <<>>
    /\ answers = <<>>
    /\ agents = <<>>
    /\ activeTasks = <<>>
    /\ submits = <<>>
    /\ emitted = <<>>
    /\ metrics = <<>>
    /\ ops = <<>>
    /\ connections = AllOpen

NextOverwrite ==
    \/ \E c \in DOMAIN clients : CallStoreSecond(c)
    \/ \E c \in DOMAIN clients : CallGetTaskResultAgain(c)
    \/ \E c \in DOMAIN clients : ClientStep(c)
    \/ CacheExpire

\* the task-result store under a caller that overwrites a result while
\* others fetch it
SpecOverwrite == InitOverwrite /\ [][NextOverwrite]_vars

\* a caller starts updateConversationHistory(conversationId, task, response)
CallUpdateConversationHistory(c) ==
    /\ Ended(clients[c])
    /\ Len(conversationHistory)
         + Cardinality({d \in DOMAIN clients : ~Ended(clients[d])}) < MaxHistory
    /\ \E conversationId \in ConversationIds, task \in HistoryTasks :
          clients' = [clients EXCEPT ![c] = UpdateConversationHistoryCall(conversationId, task)]
    /\ UNCHANGED <<opsState, storeState, persisted, routerState, routerCaller, busState>>

\* the task_results rows earlier storeTaskResult calls left
StoredRows(taskIds) ==
    [t \in taskIds |-> [output |-> "summary", metadata |-> UsedMetadata("gpt4")]]

InitHistory ==
    /\ cache = <<>>
    /\ taskResults \in {StoredRows(TaskIds), StoredRows({"t1"})}
    /\ conversations = <<>>
    /\ conversationHistory = <<>>
    /\ embeddings = <<>>
    /\ clients = [c \in 1..NAppenders |-> Idle]
    /\ persisted = <<>>
    /\ providers = <<>>
    /\ routingStrategy = "other"
    /\ currentProvider = None
    /\ request = <<>>
    /\ answers = <<>>
    /\ agents = <<>>
    /\ activeTasks = <<>>
    /\ submits = <<>>
    /\ emitted = <<>>
    /\ metrics = <<>>
    /\ ops = <<>>
    /\ connections = AllOpen

\* the step of a call that does not touch the task results
HistoryStep(c) ==
    /\ clients[c].op = "updateConversationHistory"
    /\ ClientStep(c)

NextHistory ==
    \/ \E c \in DOMAIN clients : CallUpdateConversationHistory(c)
    \/ \E c \in DOMAIN clients : HistoryStep(c)

\* the conversation history under concurrent callers of updateConversationHistory
SpecHistory == InitHistory /\ [][NextHistory]_vars

\* a caller starts updateConversationHistory while no other call is in progress
CallUpdateConversationHistoryAlone(c) ==
    /\ \A d \in DOMAIN clients : Ended(clients[d])
    /\ CallUpdateConversationHistory(c)

NextHistoryAlone ==
    \/ \E c \in DOMAIN clients : CallUpdateConversationHistoryAlone(c)
    \/ \E c \in DOMAIN clients : HistoryStep(c)

\* the conversation history under callers whose calls do not overlap in time
SpecHistoryAlone == InitHistory /\ [][NextHistoryAlone]_vars

\* a caller starts storeEmbedding(embedding, tenantId)
CallStoreEmbedding(c) ==
    /\ Ended(clients[c])
    /\ \E embedding \in EmbeddingInputs, tenantId \in TenantIds :
          clients' = [clients EXCEPT ![c] = StoreEmbeddingCall(embedding, tenantId)]
    /\ UNCHANGED <<opsState, storeState, persisted, routerState, routerCaller, busState>>

\* a caller starts searchSimilarEmbeddings(queryVector, tenantId, limit)
CallSearchSimilarEmbeddings(c) ==
    /\ Ended(clients[c])
    /\ \E queryVector \in Vectors, tenantId \in TenantIds, limit \in 0..MaxLimit :
          clients' = [clients EXCEPT ![c] =
                          SearchSimilarEmbeddingsCall(queryVector, tenantId, limit)]
    /\ UNCHANGED <<opsState, storeState, persisted, routerState, routerCaller, busState>>

InitEmbeddings ==
    /\ cache = <<>>
    /\ taskResults = <<>>
    /\ conversations = <<>>
    /\ conversationHistory = <<>>
    /\ embeddings = <<>>
    /\ clients = [c \in {1} |-> Idle]
    /\ persisted = <<>>
    /\ providers = <<>>
    /\ routingStrategy = "other"
    /\ currentProvider = None
    /\ request = <<>>
    /\ answers = <<>>
    /\ agents = <<>>
    /\ activeTasks = <<>>
    /\ submits = <<>>
    /\ emitted = <<>>
    /\ metrics = <<>>
    /\ ops = <<>>
    /\ connections = AllOpen

\* the step of a storeEmbedding or searchSimilarEmbeddings call
EmbeddingCallStep(c) ==
    /\ clients[c].op \in {"storeEmbedding", "searchSimilarEmbeddings"}
    /\ ClientStep(c)

NextEmbeddings ==
    \/ \E c \in DOMAIN clients : CallStoreEmbedding(c)
    \/ \E c \in DOMAIN clients : CallSearchSimilarEmbeddings(c)
    \/ \E c \in DOMAIN clients : EmbeddingCallStep(c)

\* the embedding store under one caller making one call at a time
SpecEmbeddings == InitEmbeddings /\ [][NextEmbeddings]_vars

(***************************************************************************)
(* LuxorIntelligenceAgent                                                  *)
(***************************************************************************)
\* string.includes(part)
Contains(string, part) ==
    \E i \in 1..(Len(string) - Len(part) + 1) : SubSeq(string, i, i + Len(part) - 1) = part

\* a thrown Error with a message, and a thrown value that is not an Error
ErrorOf(message) == [isError |-> TRUE, message |-> message]
NonError == [isError |-> FALSE, message |-> "oops"]

\* error instanceof Error ? error.message : 'Unknown error'
CaughtMessage(error) == IF error.isError THEN error.message ELSE "Unknown error"

\* the failed response processTask and submitTask build in their catch blocks
FailedResponse(taskId, error) ==
    Response(taskId, "failed", Undefined, CaughtMessage(error), ZeroMetadata("none"))

UpperCaseLetters == "ABCDEFGHIJKLMNOPQRSTUVWXYZ"
LowerCaseLetters == "abcdefghijklmnopqrstuvwxyz"

\* the lower-case form of a character
LowerCaseOf(char) ==
    LET positions == {i \in 1..Len(UpperCaseLetters) : SubSeq(UpperCaseLetters, i, i) = char}
    IN  IF positions = {} THEN char
        ELSE LET i == CHOOSE i \in positions : TRUE IN SubSeq(LowerCaseLetters, i, i)

\* a string taken as it is written
AsWritten(string) == string

\* string.toLowerCase()
RECURSIVE ToLowerCase(_)
ToLowerCase(string) ==
    IF Len(string) = 0 THEN ""
    ELSE LowerCaseOf(SubSeq(string, 1, 1)) \o ToLowerCase(SubSeq(string, 2, Len(string)))

\* processTextInput on a string: the type of the result it returns
ProcessTextInput(content) ==
    CASE Contains(ToLowerCase(content), "summarize") -> "summary"
      [] Contains(ToLowerCase(content), "analyze")   -> "analysis"
      [] Contains(ToLowerCase(content), "generate")  -> "generation"
      [] OTHER                                       -> "general_processing"

SelectLLMFromPolicy(llmRanking) ==
    IF llmRanking = <<>> \/ Falsy(llmRanking[1]) THEN "default-llm" ELSE llmRanking[1]

\* Math.ceil(JSON.stringify(content).length / 4), content a string
EstimateTokensUsed(content) == (Len(content) + 2 + 3) \div 4

\* the cost per token of a provider, in units of 0.0001
CostPerToken(llmProvider) ==
    CASE llmProvider = "ollama-local"     -> 1
      [] llmProvider = "openai-gpt4"      -> 300
      [] llmProvider = "anthropic-claude" -> 150
      [] llmProvider = "openrouter"       -> 50
      [] OTHER                            -> 100

CalculateCost(content, llmProvider) == EstimateTokensUsed(content) * CostPerToken(llmProvider)

\* the response the reference agent's processTask resolves with
ProcessTask(task) ==
    IF Falsy(task.input.content)
    THEN FailedResponse(task.task_id, ErrorOf("Invalid task input"))
    ELSE CASE task.input.type = "text" ->
                Response(task.task_id, "completed",
                         ProcessTextInput(task.input.content), Undefined,
                         [llm_used |-> SelectLLMFromPolicy(task.policy.llm_ranking),
                          tokens_consumed |-> EstimateTokensUsed(task.input.content),
                          cost |-> CalculateCost(task.input.content,
                                                 IF task.policy.llm_ranking = <<>>
                                                    \/ Falsy(task.policy.llm_ranking[1])
                                                 THEN "default"
                                                 ELSE task.policy.llm_ranking[1])])
           [] task.input.type = "multi-modal" ->
                FailedResponse(task.task_id, ErrorOf("Invalid multi-modal input format"))
           [] OTHER ->
                FailedResponse(task.task_id,
                               ErrorOf("Unsupported input type: " \o task.input.type))

\* the task healthCheck builds, with no content
HealthCheckTaskWithoutContent ==
    [task_id |-> "health-check", agent_id |-> ReferenceAgentId, tenant_id |-> "system",
     input |-> [type |-> "text", content |-> Undefined],
     policy |-> [llm_ranking |-> <<"default">>, cost_budget |-> 1, timeout_ms |-> 5000],
     context |-> <<>>]

\* the task healthCheck builds (cost_budget in hundredths)
HealthCheckTask ==
    [task_id |-> "health-check", agent_id |-> ReferenceAgentId, tenant_id |-> "system",
     input |-> [type |-> "text", content |-> "health check"],
     policy |-> [llm_ranking |-> <<"default">>, cost_budget |-> 1, timeout_ms |-> 5000],
     context |-> <<>>]

\* the contents callers hand to the agent: absent ones, and strings that name
\* none, one or several of the words processTextInput looks for
AgentContents ==
    {Undefined, Null, "", "x", "Summarize this", "please ANALYZE it", "generate y",
     "analyze, then summarize", "Generate an Analysis", "sumarize"}

\* the tasks callers hand to the agent's processTask
AgentTasks ==
    [task_id : TaskIds,
     agent_id : {ReferenceAgentId},
     tenant_id : {"acme"},
     input : [type : {"text", "multi-modal", "image"}, content : AgentContents],
     policy : [llm_ranking : {<<>>, <<"ollama-local">>, <<"openai-gpt4", "ollama-local">>},
               cost_budget : {10}, timeout_ms : {50}],
     context : {<<>>}]

\* a caller calls processTask(task) and the call settles: every statement
\* that can throw sits in the try block, whose catch returns a failed response
AgentProcessTask(k) ==
    /\ \E task \in AgentTasks :
          ops' = [ops EXCEPT ![k] =
                     Returned([op |-> "processTask", pc |-> "called", task |-> task],
                              ProcessTask(task))]
    /\ UNCHANGED <<connections, busState, routerState, routerCaller, storeState, storeCallers>>

\* a caller calls the agent's healthCheck() and the call settles
AgentHealthCheck(k) ==
    /\ LET response == ProcessTask(HealthCheckTask)
       IN  ops' = [ops EXCEPT ![k] =
                      Returned([op |-> "healthCheck", pc |-> "called", response |-> response],
                               response["status"] = "completed")]
    /\ UNCHANGED <<connections, busState, routerState, routerCaller, storeState, storeCallers>>

\* a reference agent as constructed, and a caller that has called nothing
InitAgent ==
    /\ ops = [k \in {1} |-> Idle]
    /\ connections = AllOpen
    /\ agents = <<>>
    /\ activeTasks = <<>>
    /\ submits = <<>>
    /\ emitted = <<>>
    /\ metrics = <<>>
    /\ providers = <<>>
    /\ routingStrategy = "other"
    /\ currentProvider = None
    /\ request = <<>>
    /\ answers = <<>>
    /\ cache = <<>>
    /\ taskResults = <<>>
    /\ conversations = <<>>
    /\ conversationHistory = <<>>
    /\ embeddings = <<>>
    /\ clients = <<>>
    /\ persisted = <<>>

NextAgent ==
    \/ \E k \in DOMAIN ops : AgentProcessTask(k)
    \/ \E k \in DOMAIN ops : AgentHealthCheck(k)

\* the reference agent under a caller of processTask and healthCheck
SpecAgent == InitAgent /\ [][NextAgent]_vars

(***************************************************************************)
(* Luxor9AgentBus                                                          *)
(***************************************************************************)
\* the agents an application registers: the reference agent, an agent whose
\* processTask never settles, and an agent whose processTask settles as it
\* pleases
AgentIds == {ReferenceAgentId, "stalled-agent", "custom-agent"}

AgentKind(agentId) ==
    CASE agentId = ReferenceAgentId  -> "reference"
      [] agentId = "stalled-agent"   -> "stalled"
      [] OTHER                       -> "custom"

\* task.context: the optional properties that are set
ContextKeys == {"conversation_id", "memory_snapshots"}
Contexts ==
    {[k \in keys |-> IF k = "conversation_id" THEN "c1" ELSE <<"s1">>] :
        keys \in SUBSET ContextKeys}

\* the valid tasks callers submit; the agent "missing" is never registered
ValidTasks ==
    [task_id : {"t1"},
     agent_id : AgentIds \cup {"missing"},
     tenant_id : {"acme"},
     input : [type : {"text", "image"}, content : {"summarize x"}],
     policy : [llm_ranking : {<<"local", "gpt4">>, <<"claude", "gpt4">>},
               cost_budget : {10},
               timeout_ms : {0, 50}],
     context : Contexts]

\* a valid task, and the tasks that differ from it in what validateTask rejects
SampleTask ==
    [task_id |-> "t1", agent_id |-> ReferenceAgentId, tenant_id |-> "acme",
     input |-> [type |-> "text", content |-> "summarize x"],
     policy |-> [llm_ranking |-> <<"gpt4">>, cost_budget |-> 10, timeout_ms |-> 50],
     context |-> [k \in {"conversation_id"} |-> "c1"]]

InvalidTasks ==
    {[SampleTask EXCEPT !.task_id = ""],
     [SampleTask EXCEPT !.agent_id = ""],
     [SampleTask EXCEPT !.input.content = Undefined],
     [SampleTask EXCEPT !.input.content = ""],
     [SampleTask EXCEPT !.policy.llm_ranking = <<>>]}

\* the tasks callers submit
Tasks == ValidTasks \cup InvalidTasks

\* the routing strategies the bus is configured with
BusStrategies == {"cost", "other"}

\* what Redis holds under memory_snapshot:s1 when it holds something there
SnapshotCache == [k \in {SnapshotKey("s1")} |-> [j \in {"conversation_id"} |-> "c2"]]

\* the registries LLMRouter.initialize may leave: local and gpt4, each
\* available or not (claude, which tasks rank too, is not registered)
BusRegistries ==
    {f \in [{"local", "gpt4"} -> UNION {Descriptors(n) : n \in {"local", "gpt4"}}] :
        /\ f["local"].costPerToken = 1 /\ f["local"].latencyMs = 20
        /\ f["gpt4"].costPerToken = 30 /\ f["gpt4"].latencyMs = 5}

\* the responses the agent registered as custom-agent resolves with
CustomResponses(task) ==
    {Response(task.task_id, "completed", "custom result", Undefined, UsedMetadata("gpt4")),
     Response(task.task_id, "failed", Undefined, "agent gave up", ZeroMetadata("none"))}

\* what the agent registered as custom-agent rejects with
CustomErrors == {ErrorOf("agent crashed"), ErrorOf(""), NonError}

\* a submitTask call that has not been made
NotSubmitted ==
    [pc |-> "idle", task |-> <<>>, agent |-> <<>>, snapshots |-> <<>>, next |-> 0,
     selected |-> <<>>, agentState |-> "none", response |-> <<>>, outcome |-> <<>>]

\* validateTask checking the ids only
ValidateTaskIds(task) ==
    IF Falsy(task.task_id) \/ Falsy(task.agent_id)
    THEN <<"Task must have task_id and agent_id">>
    ELSE <<>>

\* validateTask: <<>> when the task is valid, else the message of the Error thrown
ValidateTask(task) ==
    IF Falsy(task.task_id) \/ Falsy(task.agent_id)
    THEN <<"Task must have task_id and agent_id">>
    ELSE IF Falsy(task.input.content)
         THEN <<"Task must have valid input content">>
         ELSE IF task.policy.llm_ranking = <<>>
              THEN <<"Task must have valid LLM policy">>
              ELSE <<>>

\* this.agents.get(agentId) falling back on the reference agent
AgentOrReference(agentId) ==
    IF agentId \in DOMAIN agents THEN <<agents[agentId]>> ELSE <<"reference">>

\* this.agents.get(agentId): <<>> is undefined
AgentFor(agentId) ==
    IF agentId \in DOMAIN agents THEN <<agents[agentId]>> ELSE <<>>

DefaultTimeoutMs == 30000

\* task.policy.timeout_ms || 30000
TimeoutMs(policy) == IF policy.timeout_ms = 0 THEN DefaultTimeoutMs ELSE policy.timeout_ms

\* the Error the timer of executeTaskWithTimeout rejects with
TimeoutError(task) ==
    ErrorOf("Task timeout after " \o ToString(TimeoutMs(task.policy)) \o "ms")

\* this.activeTasks left as it is
KeepActive(taskId) == activeTasks

\* this.activeTasks.delete(taskId)
DeleteActive(taskId) == [t \in DOMAIN activeTasks \ {taskId} |-> activeTasks[t]]

\* this.activeTasks.set(taskId, promise), the promise being that of call c
SetActive(taskId, c) ==
    [t \in DOMAIN activeTasks \cup {taskId} |-> IF t = taskId THEN c ELSE activeTasks[t]]

\* a property of task.context is set and truthy
Truthy(context, key) ==
    key \in DOMAIN context /\ (key = "conversation_id" => ~Falsy(context[key]))

\* { ...snapshot, ...context }: the merge in which the context's own keys win
MergeKeepingContext(context, snapshot) ==
    [k \in DOMAIN context \cup DOMAIN snapshot |->
        IF k \in DOMAIN context THEN context[k] ELSE snapshot[k]]

\* { ...context, ...snapshot }
Merge(context, snapshot) ==
    [k \in DOMAIN context \cup DOMAIN snapshot |->
        IF k \in DOMAIN snapshot THEN snapshot[k] ELSE context[k]]

\* MetricsCollector.recordTaskExecution(task, response, .)
RecordTaskExecution(task, response) ==
    IF ~metrics.enabled THEN metrics
    ELSE [metrics EXCEPT !.recorded =
             [t \in DOMAIN metrics.recorded \cup {task.task_id} |->
                 IF t = task.task_id
                 THEN [agent_id |-> task.agent_id,
                       tenant_id |-> task.tenant_id,
                       llm_used |-> response["metadata"].llm_used,
                       tokens_consumed |-> response["metadata"].tokens_consumed,
                       cost |-> response["metadata"].cost,
                       status |-> response["status"]]
                 ELSE metrics.recorded[t]]]

\* registerAgent(agent)
RegisterAgent(agentId) ==
    /\ agents' = [a \in DOMAIN agents \cup {agentId} |-> AgentKind(a)]
    /\ UNCHANGED <<opsState, activeTasks, submits, emitted, metrics,
                   routerState, routerCaller, storeState, storeCallers>>

\* unregisterAgent(agentId)
UnregisterAgent(agentId) ==
    /\ agents' = [a \in DOMAIN agents \ {agentId} |-> agents[a]]
    /\ UNCHANGED <<opsState, activeTasks, submits, emitted, metrics,
                   routerState, routerCaller, storeState, storeCallers>>

\* submitTask's catch and finally blocks: call c ends in a failed response.
\* emit runs the listeners before the finally block deletes the task: active is
\* the active set those listeners find
Catch(c, call, error) ==
    LET errorResponse == FailedResponse(call.task.task_id, error)
    IN  /\ submits' = [submits EXCEPT ![c] =
                          [call EXCEPT !.pc = "returned", !.outcome = <<errorResponse>>]]
        /\ emitted' = Append(emitted, [event |-> "taskFailed",
                                       task_id |-> call.task.task_id,
                                       response |-> errorResponse,
                                       active |-> DOMAIN activeTasks])
        /\ activeTasks' = DeleteActive(call.task.task_id)
        /\ UNCHANGED metrics

\* submitTask from the metrics to the return, and its finally block, which
\* runs after emit has run the listeners
Return(c, call) ==
    /\ metrics' = RecordTaskExecution(call.task, call.response[1])
    /\ emitted' = Append(emitted, [event |-> "taskCompleted",
                                   task_id |-> call.task.task_id,
                                   response |-> call.response[1],
                                   active |-> DOMAIN activeTasks])
    /\ activeTasks' = DeleteActive(call.task.task_id)
    /\ submits' = [submits EXCEPT ![c] =
                      [call EXCEPT !.pc = "returned", !.outcome = call.response]]

\* submitTask calling llmRouter.selectOptimalLLM(task.policy), up to the await
Select(c, call) ==
    /\ RouterSelect(call.task.policy)
    /\ submits' = [submits EXCEPT ![c] =
                      [call EXCEPT !.pc = "selected",
                                   !.selected = <<SelectOutcome(call.task.policy)>>]]
    /\ UNCHANGED <<activeTasks, emitted, metrics>>

\* loadTaskContext asking for its next snapshot, or returning after the last
LoadNext(c, call) ==
    IF call.next < Len(call.snapshots)
    THEN /\ submits' = [submits EXCEPT ![c] =
                           [call EXCEPT !.pc = "hydrating", !.next = call.next + 1]]
         /\ clients' = [clients EXCEPT ![c] =
                           GetMemorySnapshotCall(call.snapshots[call.next + 1])]
         /\ UNCHANGED <<activeTasks, emitted, metrics, routerState>>
    ELSE /\ Select(c, call)
         /\ UNCHANGED clients

\* submitTask(task) as call c: the call runs to its first await, or to its
\* return when validation or the agent lookup fails
Submit(c, task) ==
    LET call == [submits[c] EXCEPT !.task = task]
        invalid == ValidateTask(task)
        agent == AgentFor(task.agent_id)
    IN  IF invalid # <<>>
        THEN /\ Catch(c, call, ErrorOf(invalid[1]))
             /\ UNCHANGED <<routerState, clients>>
        ELSE IF agent = <<>>
             THEN /\ Catch(c, call, ErrorOf("Agent not found: " \o task.agent_id))
                  /\ UNCHANGED <<routerState, clients>>
             ELSE IF Truthy(task.context, "memory_snapshots")
                  THEN LoadNext(c, [call EXCEPT !.agent = agent,
                                        !.snapshots = task.context["memory_snapshots"]])
                  ELSE /\ Select(c, [call EXCEPT !.agent = agent])
                       /\ UNCHANGED clients

\* a caller calls submitTask(task)
SubmitTask(c) ==
    /\ submits[c].pc = "idle"
    /\ \E task \in Tasks : Submit(c, task)
    /\ UNCHANGED <<opsState, agents, routerCaller, storeState, persisted>>

\* getMemorySnapshot has returned to loadTaskContext
HydrationReturns(c) ==
    /\ submits[c].pc = "hydrating"
    /\ Ended(clients[c])
    /\ LET snapshot == clients[c].value
           task == submits[c].task
           hydrated == IF snapshot = <<>> THEN task
                       ELSE [task EXCEPT !.context = Merge(task.context, snapshot[1])]
       IN  LoadNext(c, [submits[c] EXCEPT !.task = hydrated])
    /\ UNCHANGED <<opsState, agents, routerCaller, storeState, persisted>>

\* selectOptimalLLM has settled: submitTask fails, or calls
\* executeTaskWithTimeout and records the race among the active tasks
Execute(c) ==
    /\ submits[c].pc = "selected"
    /\ IF ~submits[c].selected[1].ok
       THEN Catch(c, submits[c], ErrorOf(submits[c].selected[1].value))
       ELSE /\ submits' = [submits EXCEPT ![c] =
                              [@ EXCEPT !.pc = "executing", !.agentState = "pending"]]
            /\ activeTasks' = SetActive(submits[c].task.task_id, c)
            /\ UNCHANGED <<emitted, metrics>>
    /\ UNCHANGED <<opsState, agents, routerState, routerCaller, storeState, storeCallers>>

\* the responses an agent's processTask may resolve with
AgentResponses(call) ==
    CASE call.agent[1] = "reference" -> {ProcessTask(call.task)}
      [] call.agent[1] = "custom"    -> CustomResponses(call.task)
      [] OTHER                       -> {}

\* the agent's processTask resolves and submitTask goes on to store the
\* response, whether the race is still open or not
AgentResolvesStoring(c) ==
    /\ submits[c].agentState = "pending"
    /\ \E response \in AgentResponses(submits[c]) :
          /\ submits' = [submits EXCEPT ![c] =
                            [@ EXCEPT !.pc = "storing", !.agentState = "resolved",
                                      !.response = <<response>>]]
          /\ clients' = [clients EXCEPT ![c] =
                            StoreTaskResultCall(submits[c].task.task_id, response)]
    /\ UNCHANGED <<opsState, agents, activeTasks, emitted, metrics,
                   routerState, routerCaller, storeState, persisted>>

\* the agent's processTask resolves; if the race is still open, submitTask
\* goes on to store the response
AgentResolves(c) ==
    /\ submits[c].agentState = "pending"
    /\ \E response \in AgentResponses(submits[c]) :
          IF submits[c].pc = "executing"
          THEN /\ submits' = [submits EXCEPT ![c] =
                                 [@ EXCEPT !.pc = "storing", !.agentState = "resolved",
                                           !.response = <<response>>]]
               /\ clients' = [clients EXCEPT ![c] =
                                 StoreTaskResultCall(submits[c].task.task_id, response)]
          ELSE /\ submits' = [submits EXCEPT ![c] = [@ EXCEPT !.agentState = "resolved"]]
               /\ UNCHANGED clients
    /\ UNCHANGED <<opsState, agents, activeTasks, emitted, metrics,
                   routerState, routerCaller, storeState, persisted>>

\* the agent's processTask rejects
AgentRejects(c) ==
    /\ submits[c].agentState = "pending"
    /\ submits[c].agent[1] = "custom"
    /\ \E error \in CustomErrors :
          IF submits[c].pc = "executing"
          THEN Catch(c, [submits[c] EXCEPT !.agentState = "rejected"], error)
          ELSE /\ submits' = [submits EXCEPT ![c] = [@ EXCEPT !.agentState = "rejected"]]
               /\ UNCHANGED <<activeTasks, emitted, metrics>>
    /\ UNCHANGED <<opsState, agents, routerState, routerCaller, storeState, storeCallers>>

\* the timer of executeTaskWithTimeout fires while the race is open (the
\* reference agent settles without leaving the microtask queue, so no timer
\* fires before it has)
TimerFires(c) ==
    /\ submits[c].pc = "executing"
    /\ submits[c].agent[1] # "reference"
    /\ Catch(c, submits[c], TimeoutError(submits[c].task))
    /\ UNCHANGED <<opsState, agents, routerState, routerCaller, storeState, storeCallers>>

\* the MemoryManager call that submitTask awaits takes its next step
MemoryStep(c) ==
    /\ submits[c].pc \in {"hydrating", "storing", "history"}
    /\ ClientStep(c)

\* memoryManager.storeTaskResult has settled
StoreTaskResultReturns(c) ==
    /\ submits[c].pc = "storing"
    /\ Ended(clients[c])
    /\ IF clients[c].pc = "threw"
       THEN /\ Catch(c, submits[c], ErrorOf(clients[c].error))
            /\ UNCHANGED clients
       ELSE IF Truthy(submits[c].task.context, "conversation_id")
            THEN /\ submits' = [submits EXCEPT ![c] = [@ EXCEPT !.pc = "history"]]
                 /\ clients' = [clients EXCEPT ![c] =
                                   UpdateConversationHistoryCall(
                                       submits[c].task.context["conversation_id"],
                                       submits[c].task)]
                 /\ UNCHANGED <<activeTasks, emitted, metrics>>
            ELSE /\ Return(c, submits[c])
                 /\ UNCHANGED clients
    /\ UNCHANGED <<opsState, agents, routerState, routerCaller, storeState, persisted>>

\* memoryManager.updateConversationHistory has settled
UpdateConversationHistoryReturns(c) ==
    /\ submits[c].pc = "history"
    /\ Ended(clients[c])
    /\ IF clients[c].pc = "threw"
       THEN Catch(c, submits[c], ErrorOf(clients[c].error))
       ELSE Return(c, submits[c])
    /\ UNCHANGED <<opsState, agents, routerState, routerCaller, storeState, storeCallers>>

\* the bus after initialize(), no agent registered and no task submitted
Init ==
    /\ agents = <<>>
    /\ activeTasks = <<>>
    /\ submits = [c \in {1} |-> NotSubmitted]
    /\ emitted = <<>>
    /\ metrics \in [enabled : BOOLEAN, recorded : {<<>>}]
    /\ ops = <<>>
    /\ connections = AllOpen
    /\ providers \in BusRegistries
    /\ routingStrategy \in BusStrategies
    /\ currentProvider = None
    /\ request = <<>>
    /\ answers = <<>>
    /\ cache \in {<<>>, SnapshotCache}
    /\ taskResults = <<>>
    /\ conversations = <<>>
    /\ conversationHistory = <<>>
    /\ embeddings = <<>>
    /\ clients = [c \in {1} |-> Idle]
    /\ persisted = [t \in TaskIds |-> <<>>]

Next ==
    \/ \E agentId \in AgentIds : RegisterAgent(agentId)
    \/ \E agentId \in AgentIds : UnregisterAgent(agentId)
    \/ \E c \in DOMAIN submits : SubmitTask(c)
    \/ \E c \in DOMAIN submits : HydrationReturns(c)
    \/ \E c \in DOMAIN submits : Execute(c)
    \/ \E c \in DOMAIN submits : AgentResolves(c)
    \/ \E c \in DOMAIN submits : AgentRejects(c)
    \/ \E c \in DOMAIN submits : TimerFires(c)
    \/ \E c \in DOMAIN submits : MemoryStep(c)
    \/ \E c \in DOMAIN submits : StoreTaskResultReturns(c)
    \/ \E c \in DOMAIN submits : UpdateConversationHistoryReturns(c)

\* the bus under one caller of submitTask
Spec == Init /\ [][Next]_vars

\* the bus after initialize() in a deployment that routes by cost and records metrics
InitLive ==
    /\ agents = <<>>
    /\ activeTasks = <<>>
    /\ submits = [c \in {1} |-> NotSubmitted]
    /\ emitted = <<>>
    /\ metrics = [enabled |-> TRUE, recorded |-> <<>>]
    /\ ops = <<>>
    /\ connections = AllOpen
    /\ providers \in BusRegistries
    /\ routingStrategy = "cost"
    /\ currentProvider = None
    /\ request = <<>>
    /\ answers = <<>>
    /\ cache \in {<<>>, SnapshotCache}
    /\ taskResults = <<>>
    /\ conversations = <<>>
    /\ conversationHistory = <<>>
    /\ embeddings = <<>>
    /\ clients = [c \in {1} |-> Idle]
    /\ persisted = [t \in TaskIds |-> <<>>]

\* the bus under an event loop that runs a timer that is due
SpecLive == InitLive /\ [][Next]_vars /\ \A c \in {1} : WF_vars(TimerFires(c))

(***************************************************************************)
(* Luxor9AgentBus: streamTask, cancelTask, getTaskStatus, healthCheck and  *)
(* shutdown, called while submitTask calls are in flight                   *)
(***************************************************************************)
\* the callers of submitTask and, numbered after them, the caller of the other
\* operations, each with its own calls into the MemoryManager.  Every action
\* is one turn of the event loop: a callback and the microtasks it queues, run
\* up to the next wait for the store, for an agent or for a timer
Submitters == {1, 2}
Operator == Cardinality(Submitters) + 1

\* the tasks these callers submit or stream; the agent "missing" is never
\* registered, and a task without content is invalid
OpsTasks ==
    [task_id : TaskIds,
     agent_id : {ReferenceAgentId, "custom-agent", "stalled-agent", "missing"},
     tenant_id : {"acme"},
     input : [type : {"text"}, content : {"summarize x", Undefined}],
     policy : [llm_ranking : {<<"local", "gpt4">>}, cost_budget : {10}, timeout_ms : {50}],
     context : {<<>>}]

\* the tasks of submitter c: the first submits t1, to the reference agent, to
\* the custom agent or to the missing one; the second submits t2, valid, to
\* the stalled agent
OwnTasks(c) ==
    {task \in OpsTasks :
        IF c = 1
        THEN task.task_id = "t1" /\ task.agent_id # "stalled-agent"
        ELSE /\ task.task_id = "t2" /\ task.agent_id = "stalled-agent"
             /\ task.input.content # Undefined}

\* the registries these callers find: every provider available, or none
OpsRegistries == {f \in BusRegistries : f["local"].available = f["gpt4"].available}

\* this.activeTasks.get(taskId) is never set
NeverActive(taskId) == FALSE

\* this.activeTasks.get(taskId) is set
IsActive(taskId) == taskId \in DOMAIN activeTasks

\* the response getTaskStatus answers with for an active task
StreamingResponse(taskId) ==
    Response(taskId, "streaming", Undefined, Undefined, ZeroMetadata("unknown"))

\* LLMRouter.healthCheck() answering true whatever the registry holds
RouterAlwaysHealthy == TRUE

\* LLMRouter.healthCheck(): some provider is available
RouterHealthCheck == \E n \in DOMAIN providers : providers[n].available

\* cancelling that emits nothing
NoCancelEvents(ids) == <<>>

\* the taskCancelled events of cancelling the tasks of ids, in the order ids lists them
CancelEvents(ids) == [i \in 1..Len(ids) |-> [event |-> "taskCancelled", task_id |-> ids[i]]]

\* the loop over this.activeTasks stopping after its first entry
FirstActiveOnly ==
    {ids \in UNION {[1..n -> DOMAIN activeTasks] : n \in {0, 1}} :
        Len(ids) = 0 <=> DOMAIN activeTasks = {}}

\* the orders in which the entries of this.activeTasks may have been inserted
ActiveOrders ==
    {ids \in UNION {[1..n -> DOMAIN activeTasks] : n \in {Cardinality(DOMAIN activeTasks)}} :
        \A i, j \in DOMAIN ids : i # j => ids[i] # ids[j]}

\* a caller submits a task of its own
SubmitOwnTask(c) ==
    /\ submits[c].pc = "idle"
    /\ \E task \in OwnTasks(c) : Submit(c, task)
    /\ UNCHANGED <<opsState, agents, routerCaller, storeState, persisted>>

\* a consumer asks streamTask(task) for its first element: the generator
\* throws when no agent is registered under task.agent_id, else calls
\* submitTask(task) as call c and awaits it
StreamTask(k, c) ==
    /\ Ended(ops[k])
    /\ submits[c].pc = "idle"
    /\ \E task \in OwnTasks(c) :
          LET call == [op |-> "streamTask", pc |-> "submitted", task |-> task, call |-> c]
          IN  IF AgentFor(task.agent_id) = <<>>
              THEN /\ ops' = [ops EXCEPT ![k] =
                                 Threw(call, "Agent not found: " \o task.agent_id)]
                   /\ UNCHANGED <<activeTasks, submits, emitted, metrics,
                                  routerState, clients>>
              ELSE /\ ops' = [ops EXCEPT ![k] = call]
                   /\ Submit(c, task)
    /\ UNCHANGED <<connections, agents, routerCaller, storeState, persisted>>

\* submitTask has returned to the generator, which yields the response; the
\* value of the call is the sequence the consumer has observed when it ends
StreamYields(k) ==
    /\ ops[k].op = "streamTask"
    /\ ops[k].pc = "submitted"
    /\ submits[ops[k].call].pc = "returned"
    /\ ops' = [ops EXCEPT ![k] = Returned(ops[k], submits[ops[k].call].outcome)]
    /\ UNCHANGED <<connections, busState, routerState, routerCaller, storeState, storeCallers>>

\* cancelTask(taskId)
CancelTask(k) ==
    /\ Ended(ops[k])
    /\ \E taskId \in TaskIds :
          /\ ops' = [ops EXCEPT ![k] =
                        Returned([op |-> "cancelTask", pc |-> "called", taskId |-> taskId,
                                  wasActive |-> taskId \in DOMAIN activeTasks], <<>>)]
          /\ IF taskId \in DOMAIN activeTasks
             THEN /\ activeTasks' = DeleteActive(taskId)
                  /\ emitted' = emitted \o CancelEvents(<<taskId>>)
             ELSE UNCHANGED <<activeTasks, emitted>>
    /\ UNCHANGED <<connections, agents, submits, metrics,
                   routerState, routerCaller, storeState, storeCallers>>

\* getTaskStatus(taskId): answers at once for an active task, else calls
\* memoryManager.getTaskResult(taskId); finished records the submitTask calls
\* that had returned when it was called
GetTaskStatus(k) ==
    /\ Ended(ops[k])
    /\ \E taskId \in TaskIds :
          LET call == [op |-> "getTaskStatus", pc |-> "fetching", taskId |-> taskId,
                       finished |-> {c \in DOMAIN submits : submits[c].pc = "returned"}]
          IN  IF IsActive(taskId)
              THEN /\ ops' = [ops EXCEPT ![k] = Returned(call, <<StreamingResponse(taskId)>>)]
                   /\ UNCHANGED clients
              ELSE /\ ops' = [ops EXCEPT ![k] = call]
                   /\ clients' = [clients EXCEPT ![k] = GetTaskResultCall(taskId)]
    /\ UNCHANGED <<connections, busState, routerState, routerCaller, storeState, persisted>>

\* memoryManager.getTaskResult has settled
GetTaskStatusReturns(k) ==
    /\ ops[k].op = "getTaskStatus"
    /\ ops[k].pc = "fetching"
    /\ Ended(clients[k])
    /\ ops' = [ops EXCEPT ![k] =
                  IF clients[k].value # <<>>
                  THEN Returned(ops[k], clients[k].value)
                  ELSE Threw(ops[k], "Task not found: " \o ops[k].taskId)]
    /\ UNCHANGED <<connections, busState, routerState, routerCaller, storeState, storeCallers>>

\* healthCheck() up to its first await
HealthCheck(k) ==
    /\ Ended(ops[k])
    /\ ops' = [ops EXCEPT ![k] = [op |-> "healthCheck", pc |-> "memoryHealth"]]
    /\ clients' = [clients EXCEPT ![k] = MemoryHealthCheckCall]
    /\ UNCHANGED <<connections, busState, routerState, routerCaller, storeState, persisted>>

\* memoryManager.healthCheck has settled; healthCheck asks the router and returns
HealthCheckReturns(k) ==
    /\ ops[k].op = "healthCheck"
    /\ ops[k].pc = "memoryHealth"
    /\ Ended(clients[k])
    /\ ops' = [ops EXCEPT ![k] = Returned(ops[k], clients[k].value /\ RouterHealthCheck)]
    /\ UNCHANGED <<connections, busState, routerState, routerCaller, storeState, storeCallers>>

\* shutdown() up to memoryManager.shutdown(): the loop over this.activeTasks
\* cancels each entry; cancelTask awaits nothing, so the awaits of the loop
\* yield to the microtask queue only, and no timer and no answer of an agent
\* or of the store comes between; active and emitted record the active set
\* and the number of events at the call
Shutdown(k) ==
    /\ Ended(ops[k])
    /\ \E ids \in ActiveOrders :
          /\ emitted' = emitted \o CancelEvents(ids)
          /\ ops' = [ops EXCEPT ![k] =
                        [op |-> "shutdown", pc |-> "memoryShutdown",
                         active |-> DOMAIN activeTasks, emitted |-> Len(emitted)]]
    /\ activeTasks' = <<>>
    /\ clients' = [clients EXCEPT ![k] = MemoryShutdownCall]
    /\ UNCHANGED <<connections, agents, submits, metrics,
                   routerState, routerCaller, storeState, persisted>>

\* memoryManager.shutdown has settled; shutdown calls llmRouter.shutdown()
\* and returns
ShutdownReturns(k) ==
    /\ ops[k].op = "shutdown"
    /\ ops[k].pc = "memoryShutdown"
    /\ Ended(clients[k])
    /\ currentProvider' = None
    /\ ops' = [ops EXCEPT ![k] = Returned(ops[k], <<>>)]
    /\ UNCHANGED <<connections, busState, providers, routingStrategy, routerCaller,
                   storeState, storeCallers>>

\* the MemoryManager call that one of these operations awaits takes its next step
OperatorMemoryStep(k) ==
    /\ ~Ended(ops[k])
    /\ ClientStep(k)

\* the bus after initialize() and the registration of the agents
InitOps ==
    /\ agents = [a \in AgentIds |-> AgentKind(a)]
    /\ activeTasks = <<>>
    /\ submits = [c \in Submitters |-> NotSubmitted]
    /\ emitted = <<>>
    /\ metrics = [enabled |-> TRUE, recorded |-> <<>>]
    /\ ops = [k \in {Operator} |-> Idle]
    /\ connections = AllOpen
    /\ providers \in OpsRegistries
    /\ routingStrategy = "cost"
    /\ currentProvider = None
    /\ request = <<>>
    /\ answers = <<>>
    /\ cache = <<>>
    /\ taskResults = <<>>
    /\ conversations = <<>>
    /\ conversationHistory = <<>>
    /\ embeddings = <<>>
    /\ clients = [c \in Submitters \cup {Operator} |-> Idle]
    /\ persisted = [t \in TaskIds |-> <<>>]

NextOps ==
    \/ \E c \in DOMAIN submits : SubmitOwnTask(c)
    \/ \E c \in DOMAIN submits : Execute(c)
    \/ \E c \in DOMAIN submits : AgentResolves(c)
    \/ \E c \in DOMAIN submits : TimerFires(c)
    \/ \E c \in DOMAIN submits : MemoryStep(c)
    \/ \E c \in DOMAIN submits : StoreTaskResultReturns(c)
    \/ \E k \in DOMAIN ops, c \in DOMAIN submits : StreamTask(k, c)
    \/ \E k \in DOMAIN ops : StreamYields(k)
    \/ \E k \in DOMAIN ops : CancelTask(k)
    \/ \E k \in DOMAIN ops : GetTaskStatus(k)
    \/ \E k \in DOMAIN ops : GetTaskStatusReturns(k)
    \/ \E k \in DOMAIN ops : HealthCheck(k)
    \/ \E k \in DOMAIN ops : HealthCheckReturns(k)
    \/ \E k \in DOMAIN ops : Shutdown(k)
    \/ \E k \in DOMAIN ops : ShutdownReturns(k)
    \/ \E k \in DOMAIN ops : OperatorMemoryStep(k)
    \/ CacheExpire

\* the bus under two callers of submitTask and a caller of the other operations
SpecOps == InitOps /\ [][NextOps]_vars

\* the reference agent's processTask resolves: it awaits nothing but its own
\* async methods, so it settles as soon as the microtask queue runs
ReferenceAgentResolves(c) ==
    /\ submits[c].agent = <<"reference">>
    /\ AgentResolves(c)

\* the bus after initialize() in a deployment that routes by cost and records
\* metrics, its providers all available or all unavailable, Redis holding a
\* memory snapshot
InitFair ==
    /\ agents = <<>>
    /\ activeTasks = <<>>
    /\ submits = [c \in {1} |-> NotSubmitted]
    /\ emitted = <<>>
    /\ metrics = [enabled |-> TRUE, recorded |-> <<>>]
    /\ ops = <<>>
    /\ connections = AllOpen
    /\ providers \in OpsRegistries
    /\ routingStrategy = "cost"
    /\ currentProvider = None
    /\ request = <<>>
    /\ answers = <<>>
    /\ cache = SnapshotCache
    /\ taskResults = <<>>
    /\ conversations = <<>>
    /\ conversationHistory = <<>>
    /\ embeddings = <<>>
    /\ clients = [c \in {1} |-> Idle]
    /\ persisted = [t \in TaskIds |-> <<>>]

\* call c goes on: the continuation of an await that has settled runs, the
\* reference agent resolves, the timer of the call fires, or the store
\* answers the command the call awaits
Proceeds(c) ==
    \/ HydrationReturns(c)
    \/ Execute(c)
    \/ ReferenceAgentResolves(c)
    \/ TimerFires(c)
    \/ MemoryStep(c)
    \/ StoreTaskResultReturns(c)
    \/ UpdateConversationHistoryReturns(c)

\* the bus under an event loop that runs the continuation of every await that
\* has settled and every timer that is due, and a store that answers every
\* command
SpecFair == InitFair /\ [][Next]_vars /\ \A c \in {1} : WF_vars(Proceeds(c))

(***************************************************************************)
(* Luxor9AgentBus.loadTaskContext over several memory snapshots            *)
(***************************************************************************)
\* the snapshot ids a task lists; nothing is ever stored under s3
SnapshotIds == {"s1", "s2", "s3"}
MaxSnapshots == 2

\* what Redis holds under memory_snapshot:s1 and memory_snapshot:s2 when it
\* holds something there: both snapshots set topic
StoredSnapshots ==
    [k \in {SnapshotKey("s1"), SnapshotKey("s2")} |->
        IF k = SnapshotKey("s1")
        THEN [j \in {"conversation_id", "topic"} |-> IF j = "topic" THEN "a" ELSE "c2"]
        ELSE [j \in {"topic"} |-> "b"]]

\* the contents of Redis: each of the two snapshots stored or not
SnapshotCaches ==
    {[k \in keys |-> StoredSnapshots[k]] : keys \in SUBSET DOMAIN StoredSnapshots}

\* the contexts that list snapshots: one to MaxSnapshots ids, with or without
\* a conversation and a topic of the task's own
HydrationContexts ==
    {[k \in {"memory_snapshots"} \cup own |->
         CASE k = "memory_snapshots" -> ids
           [] k = "conversation_id"  -> "c1"
           [] OTHER                  -> "own"] :
        ids \in UNION {[1..n -> SnapshotIds] : n \in 1..MaxSnapshots},
        own \in {{}, {"conversation_id", "topic"}}}

\* the tasks submitted with such a context, all to the reference agent
HydrationTasks ==
    [task_id : {"t1"},
     agent_id : {ReferenceAgentId},
     tenant_id : {"acme"},
     input : [type : {"text"}, content : {"summarize x"}],
     policy : [llm_ranking : {<<"local", "gpt4">>}, cost_budget : {10}, timeout_ms : {50}],
     context : HydrationContexts]

\* a caller calls submitTask with a task that lists snapshots
SubmitSnapshotTask(c) ==
    /\ submits[c].pc = "idle"
    /\ \E task \in HydrationTasks : Submit(c, task)
    /\ UNCHANGED <<opsState, agents, routerCaller, storeState, persisted>>

\* the bus after initialize(), the reference agent registered, Redis holding
\* some of the snapshots
InitHydration ==
    /\ agents = [a \in {ReferenceAgentId} |-> AgentKind(a)]
    /\ activeTasks = <<>>
    /\ submits = [c \in {1} |-> NotSubmitted]
    /\ emitted = <<>>
    /\ metrics = [enabled |-> TRUE, recorded |-> <<>>]
    /\ ops = <<>>
    /\ connections = AllOpen
    /\ providers \in OpsRegistries
    /\ routingStrategy = "cost"
    /\ currentProvider = None
    /\ request = <<>>
    /\ answers = <<>>
    /\ cache \in SnapshotCaches
    /\ taskResults = <<>>
    /\ conversations = <<>>
    /\ conversationHistory = <<>>
    /\ embeddings = <<>>
    /\ clients = [c \in {1} |-> Idle]
    /\ persisted = [t \in TaskIds |-> <<>>]

NextHydration ==
    \/ \E c \in DOMAIN submits : SubmitSnapshotTask(c)
    \/ \E c \in DOMAIN submits : MemoryStep(c)
    \/ \E c \in DOMAIN submits : HydrationReturns(c)
    \/ \E c \in DOMAIN submits : Execute(c)
    \/ \E c \in DOMAIN submits : ReferenceAgentResolves(c)
    \/ \E c \in DOMAIN submits : StoreTaskResultReturns(c)
    \/ \E c \in DOMAIN submits : UpdateConversationHistoryReturns(c)
    \/ CacheExpire

\* the bus under a caller whose task lists snapshots, while cache entries expire
SpecHydration == InitHydration /\ [][NextHydration]_vars

(***************************************************************************)
(* Luxor9AgentBus.executeTaskWithTimeout: the loser of the race            *)
(***************************************************************************)
\* the timer of call c's executeTaskWithTimeout, which nothing clears; it is
\* set once the call has called the agent
TimerWaiting == [op |-> "setTimeout", pc |-> "waiting"]

\* the timer of call c won the race
TimerWon(c) ==
    /\ submits[c].pc = "returned"
    /\ submits[c].agentState # "none"
    /\ submits[c].response = <<>>
    /\ submits[c].outcome = <<FailedResponse(submits[c].task.task_id,
                                             TimeoutError(submits[c].task))>>

\* the timer fires after the agent has settled the race: its reject() is a
\* call on a promise that is settled, which does nothing
TimerFiresLate(c) ==
    /\ submits[c].agentState \in {"resolved", "rejected"}
    /\ ~TimerWon(c)
    /\ ops[c].pc = "waiting"
    /\ ops' = [ops EXCEPT ![c] = [@ EXCEPT !.pc = "fired"]]
    /\ UNCHANGED <<connections, busState, routerState, routerCaller, storeState, storeCallers>>

\* the bus after initialize() in a deployment that routes by cost and records
\* metrics, every agent registered
InitRace ==
    /\ agents = [a \in AgentIds |-> AgentKind(a)]
    /\ activeTasks = <<>>
    /\ submits = [c \in {1} |-> NotSubmitted]
    /\ emitted = <<>>
    /\ metrics = [enabled |-> TRUE, recorded |-> <<>>]
    /\ ops = [c \in {1} |-> TimerWaiting]
    /\ connections = AllOpen
    /\ providers \in OpsRegistries
    /\ routingStrategy = "cost"
    /\ currentProvider = None
    /\ request = <<>>
    /\ answers = <<>>
    /\ cache = <<>>
    /\ taskResults = <<>>
    /\ conversations = <<>>
    /\ conversationHistory = <<>>
    /\ embeddings = <<>>
    /\ clients = [c \in {1} |-> Idle]
    /\ persisted = [t \in TaskIds |-> <<>>]

NextRace ==
    \/ \E c \in DOMAIN submits : SubmitTask(c)
    \/ \E c \in DOMAIN submits : HydrationReturns(c)
    \/ \E c \in DOMAIN submits : Execute(c)
    \/ \E c \in DOMAIN submits : AgentResolves(c)
    \/ \E c \in DOMAIN submits : AgentRejects(c)
    \/ \E c \in DOMAIN submits : TimerFires(c)
    \/ \E c \in DOMAIN submits : TimerFiresLate(c)
    \/ \E c \in DOMAIN submits : MemoryStep(c)
    \/ \E c \in DOMAIN submits : StoreTaskResultReturns(c)
    \/ \E c \in DOMAIN submits : UpdateConversationHistoryReturns(c)

\* the bus under one caller of submitTask, with the timers that fire late
SpecRace == InitRace /\ [][NextRace]_vars

(***************************************************************************)
(* Luxor9AgentBus.submitTask: two calls that carry the same task id        *)
(***************************************************************************)
\* the tasks of two callers that use one task id: valid tasks for t1, to an
\* agent that is registered
SameIdTasks ==
    {task \in OpsTasks :
        /\ task.task_id = "t1"
        /\ task.agent_id \in AgentIds
        /\ task.input.content # Undefined}

\* a caller calls submitTask with a task of that id
SubmitSameId(c) ==
    /\ submits[c].pc = "idle"
    /\ \E task \in SameIdTasks : Submit(c, task)
    /\ UNCHANGED <<opsState, agents, routerCaller, storeState, persisted>>

\* the bus after initialize(), every agent registered, and two callers of
\* submitTask; nobody calls cancelTask
InitSameId ==
    /\ agents = [a \in AgentIds |-> AgentKind(a)]
    /\ activeTasks = <<>>
    /\ submits = [c \in Submitters |-> NotSubmitted]
    /\ emitted = <<>>
    /\ metrics = [enabled |-> TRUE, recorded |-> <<>>]
    /\ ops = <<>>
    /\ connections = AllOpen
    /\ providers \in OpsRegistries
    /\ routingStrategy = "cost"
    /\ currentProvider = None
    /\ request = <<>>
    /\ answers = <<>>
    /\ cache = <<>>
    /\ taskResults = <<>>
    /\ conversations = <<>>
    /\ conversationHistory = <<>>
    /\ embeddings = <<>>
    /\ clients = [c \in Submitters |-> Idle]
    /\ persisted = [t \in TaskIds |-> <<>>]

NextSameId ==
    \/ \E c \in DOMAIN submits : SubmitSameId(c)
    \/ \E c \in DOMAIN submits : Execute(c)
    \/ \E c \in DOMAIN submits : AgentResolves(c)
    \/ \E c \in DOMAIN submits : TimerFires(c)
    \/ \E c \in DOMAIN submits : MemoryStep(c)
    \/ \E c \in DOMAIN submits : StoreTaskResultReturns(c)

\* the bus under two callers of submitTask that use the same task id
SpecSameId == InitSameId /\ [][NextSameId]_vars

(***************************************************************************)
(* Properties of the router, under SpecRouter.                             *)
(***************************************************************************)
\* the providers that request ranks and the registry holds as available
RankedAvailable ==
    {n \in DOMAIN providers :
        /\ providers[n].available
        /\ \E i \in 1..Len(request.llm_ranking) : request.llm_ranking[i] = n}

\* the ranked and available providers whose cost is within request's budget
WithinBudget == {n \in RankedAvailable : providers[n].costPerToken <= request.cost_budget}

\* the first position of n in request's ranking
FirstRank(n) ==
    CHOOSE i \in 1..Len(request.llm_ranking) :
        /\ request.llm_ranking[i] = n
        /\ \A j \in 1..(i - 1) : request.llm_ranking[j] # n

C6_CostBoundedSelection ==
    (routingStrategy = "cost" /\ WithinBudget # {}) =>
        \A k \in 1..Len(answers) :
            /\ answers[k].ok
            /\ answers[k].value \in WithinBudget
            /\ \A n \in WithinBudget :
                  providers[answers[k].value].costPerToken <= providers[n].costPerToken

\* the first-ranked provider is within the budget, and a cheaper one was returned
C6_Witness ==
    /\ routingStrategy = "cost"
    /\ answers # <<>>
    /\ answers[1].ok
    /\ request.llm_ranking[1] \in WithinBudget
    /\ providers[answers[1].value].costPerToken
          < providers[request.llm_ranking[1]].costPerToken

\* C7: under the hybrid strategy the call returns a ranked, available
\* provider of maximum score, and among providers of that same score the
\* one ranked first.
C7_HybridTieBreak ==
    (routingStrategy = "hybrid" /\ RankedAvailable # {}) =>
        \A k \in 1..Len(answers) :
            /\ answers[k].ok
            /\ answers[k].value \in RankedAvailable
            /\ \A n \in RankedAvailable :
                  LET d == ScoreDiff(HybridScore(providers[answers[k].value], request.cost_budget),
                                     HybridScore(providers[n], request.cost_budget))
                  IN  /\ d >= 0
                      /\ d = 0 => FirstRank(answers[k].value) <= FirstRank(n)

\* two different providers tie at the maximum score
C7_Witness ==
    /\ routingStrategy = "hybrid"
    /\ answers # <<>>
    /\ answers[1].ok
    /\ \E n \in RankedAvailable :
          /\ n # answers[1].value
          /\ ScoreDiff(HybridScore(providers[answers[1].value], request.cost_budget),
                       HybridScore(providers[n], request.cost_budget)) = 0

(***************************************************************************)
(* Properties of the task-result store, under SpecStore.                   *)
(***************************************************************************)
\* getTaskResult(taskId) has returned a response to caller c
Fetched(c) ==
    /\ clients[c].op = "getTaskResult"
    /\ clients[c].pc = "returned"
    /\ clients[c].value # <<>>

\* C3: a getTaskResult(id) that follows a storeTaskResult(id, r) which
\* returned, and finds a result, returns a response equal to r, from the
\* cache and from the durable store alike.
C3_StoreRoundTrip ==
    \A c \in DOMAIN clients :
        (Fetched(c) /\ persisted[clients[c].taskId] # <<>>) =>
            clients[c].value = persisted[clients[c].taskId]

\* a stored response that comes back equal from the durable store
C3_Witness ==
    \E c \in DOMAIN clients :
        /\ Fetched(c)
        /\ persisted[clients[c].taskId] # <<>>
        /\ "built" \in DOMAIN clients[c]
        /\ clients[c].value = persisted[clients[c].taskId]

(***************************************************************************)
(* Properties of the conversation history, under SpecHistory.              *)
(***************************************************************************)
\* the positions of a conversation's rows in conversation_history
RowsOfConversation(conversationId) ==
    {i \in 1..Len(conversationHistory) :
        conversationHistory[i].conversation_id = conversationId}

\* C1: the rows concurrent updateConversationHistory calls leave in a
\* conversation, starting from an empty history, carry the sequence numbers
\* 1..N, none twice and none missing.
C1_HistoryOrdering ==
    \A conversationId \in ConversationIds :
        SequenceNumbers(conversationId) =
            1..Cardinality(RowsOfConversation(conversationId))

(***************************************************************************)
(* Properties of the embedding store, under SpecEmbeddings.                *)
(***************************************************************************)
\* caller c's searchSimilarEmbeddings call has returned
Searched(c) ==
    clients[c].op = "searchSimilarEmbeddings" /\ clients[c].pc = "returned"

\* C4: searchSimilarEmbeddings(queryVector, tenantId, limit) returns at most
\* limit records, each of a row whose stored tenant_id is tenantId.
C4_TenantIsolation ==
    \A c \in DOMAIN clients :
        Searched(c) =>
            /\ Len(clients[c].value) <= clients[c].limit
            /\ \A i \in 1..Len(clients[c].value) :
                  embeddings[clients[c].value[i].id].tenant_id = clients[c].tenantId

\* a search that returned a record while another tenant holds a row at least
\* as near, and that the limit cut short
C4_Witness ==
    \E c \in DOMAIN clients :
        /\ Searched(c)
        /\ Len(clients[c].value) = 1
        /\ clients[c].limit = 1
        /\ Cardinality(RowsOfTenant(clients[c].tenantId)) > 1
        /\ \E e \in DOMAIN embeddings :
              /\ embeddings[e].tenant_id # clients[c].tenantId
              /\ Distance(embeddings[e].embedding, clients[c].queryVector)
                    <= Distance(clients[c].value[1].vector, clients[c].queryVector)

(***************************************************************************)
(* Properties of the bus, under Spec and SpecLive.                         *)
(***************************************************************************)
\* the response call c returned
Outcome(c) == submits[c].outcome[1]

\* call c has returned a failed response with no result and zeroed metadata
ReturnedFailed(c) ==
    /\ submits[c].pc = "returned"
    /\ Outcome(c)["status"] = "failed"
    /\ Outcome(c)["result"] = Undefined
    /\ Outcome(c)["metadata"].tokens_consumed = 0
    /\ Outcome(c)["metadata"].cost = 0

\* call c is racing an agent that never settles against its timer
Stalled(c) == submits[c].pc = "executing" /\ submits[c].agent = <<"stalled">>

\* call c has returned the failed response of a timeout and its task is not active
TimedOut(c) ==
    /\ ReturnedFailed(c)
    /\ submits[c].agent = <<"stalled">>
    /\ Contains(Outcome(c)["error"], "timeout")
    /\ submits[c].task.task_id \notin DOMAIN activeTasks

\* C2: a submitTask call whose agent never settles eventually returns a
\* failed response whose error is a timeout error, its task id then being
\* absent from the active tasks.
C2_TimeoutEnforcement == \A c \in {1} : Stalled(c) ~> TimedOut(c)

\* a call timed out on the default timeout after its context was hydrated
C2_Witness ==
    \E c \in DOMAIN submits :
        /\ TimedOut(c)
        /\ Outcome(c)["error"] = "Task timeout after 30000ms"
        /\ submits[c].next = 1

\* C8: when submitTask returns the completed response of the reference
\* agent, its metadata.llm_used is the provider selectOptimalLLM returned for
\* the task.
C8_LlmUsedIsSelected ==
    \A c \in DOMAIN submits :
        (/\ submits[c].pc = "returned"
         /\ submits[c].agent = <<"reference">>
         /\ Outcome(c)["status"] = "completed")
        => Outcome(c)["metadata"].llm_used = submits[c].selected[1].value

\* C9: submitTask of a valid task whose agent_id is not registered returns at
\* once a failed response whose error contains the agent id and whose cost is
\* 0, without calling the router or an agent and without writing to the store.
C9_UnknownAgent ==
    [][\A c \in DOMAIN submits :
          (/\ submits[c].pc = "idle"
           /\ submits'[c].pc # "idle"
           /\ ValidateTask(submits'[c].task) = <<>>
           /\ submits'[c].task.agent_id \notin DOMAIN agents)
          => /\ submits'[c].pc = "returned"
             /\ submits'[c].outcome[1]["status"] = "failed"
             /\ Contains(submits'[c].outcome[1]["error"], submits'[c].task.agent_id)
             /\ submits'[c].outcome[1]["metadata"].cost = 0
             /\ submits'[c].selected = <<>>
             /\ submits'[c].agentState = "none"
             /\ UNCHANGED <<routerState, storeState, storeCallers, metrics>>]_vars

\* a call for an unregistered agent has returned while other agents are
\* registered and a ranked provider is available
C9_Witness ==
    \E c \in DOMAIN submits :
        /\ submits[c].pc = "returned"
        /\ ValidateTask(submits[c].task) = <<>>
        /\ submits[c].task.agent_id = "missing"
        /\ submits[c].agent = <<>>
        /\ Outcome(c)["error"] = "Agent not found: missing"
        /\ ReferenceAgentId \in DOMAIN agents
        /\ AvailableProviders(providers, submits[c].task.policy.llm_ranking) # <<>>

\* C10: every taskFailed response, the one submitTask returns when a step of
\* its pipeline raised an error, has status failed, a non-empty error message,
\* no result and zeroed metadata.
C10_ErrorsBecomeFailedResponses ==
    \A i \in DOMAIN emitted :
        emitted[i].event = "taskFailed"
        => /\ emitted[i].response["status"] = "failed"
           /\ emitted[i].response["error"] \notin {Undefined, ""}
           /\ emitted[i].response["result"] = Undefined
           /\ emitted[i].response["metadata"].tokens_consumed = 0
           /\ emitted[i].response["metadata"].cost = 0

\* a task with an empty id, no input content or no ranked provider
Malformed(task) ==
    \/ Falsy(task.task_id)
    \/ Falsy(task.agent_id)
    \/ Falsy(task.input.content)
    \/ task.policy.llm_ranking = <<>>

\* the messages of the errors of validation
ValidationMessages ==
    {"Task must have task_id and agent_id",
     "Task must have valid input content",
     "Task must have valid LLM policy"}

C12_InactiveAtReturn ==
    [][\A c \in DOMAIN submits :
          (submits[c].pc # "returned" /\ submits'[c].pc = "returned")
          => submits'[c].task.task_id \notin DOMAIN activeTasks']_vars

\* a call that entered the active tasks has returned its agent's completed
\* response and is no longer active
C12_Witness ==
    \E c \in DOMAIN submits :
        /\ submits[c].pc = "returned"
        /\ submits[c].agentState = "resolved"
        /\ Outcome(c)["status"] = "completed"
        /\ submits[c].task.task_id \notin DOMAIN activeTasks

(***************************************************************************)
(* More properties of the task-result store, under SpecStore.              *)
(***************************************************************************)
\* C13: when the cache write of storeTaskResult(taskId, response) has failed,
\* the call still ends with the row of response written to task_results.
C13_DurableWriteDespiteCache ==
    \A c \in DOMAIN clients :
        (/\ clients[c].op = "storeTaskResult"
         /\ clients[c].pc = "threw"
         /\ clients[c].error = RedisError)
        => /\ clients[c].taskId \in DOMAIN taskResults
           /\ taskResults[clients[c].taskId] =
                 UpsertTaskResult(clients[c].taskId, clients[c].response)[clients[c].taskId]

\* C14: a getTaskResult(taskId) call never throws, and it returns the cached
\* value when the cache holds one at its lookup; else the response of the row
\* of task_results when there is one, the cache then holding an entry for
\* taskId; else null.
C14_ReadThrough ==
    [][\A c \in DOMAIN clients :
          LET call == clients[c]
              key == TaskResultKey(call.taskId)
          IN  (call.op = "getTaskResult" /\ ~Ended(call) /\ clients'[c] # call)
              => /\ clients'[c].pc # "threw"
                 /\ clients'[c].pc = "returned"
                    => IF call.pc = "get" /\ key \in DOMAIN cache
                       THEN clients'[c].value = <<ParseResponse(cache[key])>>
                       ELSE IF call.taskId \in DOMAIN taskResults
                            THEN /\ clients'[c].value =
                                       <<RowResponse(call.taskId, taskResults[call.taskId])>>
                                 /\ key \in DOMAIN cache'
                            ELSE clients'[c].value = <<>>]_vars

(***************************************************************************)
(* More properties of the bus, under Spec.                                 *)
(***************************************************************************)
\* some name of the ranking is a registered provider marked available
SomeRankedAvailable(ranking) ==
    \E i \in 1..Len(ranking) :
        ranking[i] \in DOMAIN providers /\ providers[ranking[i]].available

\* C15: the selectOptimalLLM call of a submitTask throws 'No available LLM
\* providers' exactly when no ranked name is a registered provider marked
\* available; the submitTask call then never invokes its agent, never enters
\* the active tasks and returns a failed response carrying that error.
C15_NoProviderIsTerminal ==
    \A c \in DOMAIN submits :
        submits[c].selected # <<>>
        => /\ submits[c].selected[1].ok
              <=> SomeRankedAvailable(submits[c].task.policy.llm_ranking)
           /\ ~submits[c].selected[1].ok
              => /\ submits[c].selected[1].value = NoProviderAvailable
                 /\ submits[c].agentState = "none"
                 /\ submits[c].task.task_id \notin DOMAIN activeTasks
                 /\ submits[c].pc \in {"selected", "returned"}
                 /\ submits[c].pc = "returned"
                    => /\ ReturnedFailed(c)
                       /\ Outcome(c)["error"] = NoProviderAvailable

\* a call ranking an unregistered and an unavailable provider has returned
\* the failure, while its agent is registered
C15_Witness ==
    \E c \in DOMAIN submits :
        /\ submits[c].pc = "returned"
        /\ submits[c].task.policy.llm_ranking = <<"claude", "gpt4">>
        /\ "claude" \notin DOMAIN providers
        /\ ~providers["gpt4"].available
        /\ providers["local"].available
        /\ Outcome(c)["error"] = NoProviderAvailable
        /\ submits[c].task.agent_id \in DOMAIN agents

(***************************************************************************)
(* Properties of the bus's other operations, under SpecOps.                *)
(***************************************************************************)
\* C16: a consumer of streamTask(task), whatever the task, has observed when
\* its call ended exactly one response, the outcome of the submitTask call of
\* that task, and never an exception in place of a response
C16_StreamYieldsOneResponse ==
    \A k \in DOMAIN ops :
        (ops[k].op = "streamTask" /\ Ended(ops[k])) =>
            /\ ops[k].pc = "returned"
            /\ Len(ops[k].value) = 1
            /\ ops[k].value = submits[ops[k].call].outcome

\* the bus has emitted taskCancelled for taskId
Cancelled(taskId) ==
    \E i \in DOMAIN emitted :
        emitted[i].event = "taskCancelled" /\ emitted[i].task_id = taskId

\* C17: cancelTask(taskId) on an active task removes it from the active set
\* and emits one taskCancelled, and leaves every submitTask call and every call
\* into the store as it was; the submitTask call of a cancelled task runs on
\* as it would have: when the agent resolves in time it stores the agent's
\* response, and it returns that response once the store has taken it, else a
\* failed response
C17_CancelDoesNotStopTheCall ==
    [][/\ \A k \in DOMAIN ops :
             (/\ ops'[k] # ops[k]
              /\ ops'[k].op = "cancelTask"
              /\ ops'[k].taskId \in DOMAIN activeTasks) =>
                 /\ ops'[k].taskId \notin DOMAIN activeTasks'
                 /\ emitted' = Append(emitted, [event |-> "taskCancelled",
                                                task_id |-> ops'[k].taskId])
                 /\ UNCHANGED <<submits, storeState, storeCallers>>
       /\ \A c \in DOMAIN submits :
             (submits[c].pc \in {"executing", "storing"}
                 /\ Cancelled(submits[c].task.task_id)) =>
                 /\ (submits[c].agentState = "pending"
                        /\ submits'[c].agentState = "resolved") =>
                        /\ submits'[c].pc = "storing"
                        /\ clients'[c] = StoreTaskResultCall(submits[c].task.task_id,
                                                             submits'[c].response[1])
                 /\ submits'[c].pc = "returned" =>
                        IF submits[c].pc = "storing" /\ clients[c].pc = "returned"
                        THEN /\ submits'[c].outcome = submits[c].response
                             /\ persisted[submits[c].task.task_id] = submits[c].response
                        ELSE submits'[c].outcome[1]["status"] = "failed"]_vars

\* a task was cancelled, its submitTask call returned the agent's completed
\* response all the same, and getTaskStatus then answered with that response
C17_Witness ==
    /\ Cancelled("t1")
    /\ submits[1].pc = "returned"
    /\ submits[1].outcome = submits[1].response
    /\ submits[1].outcome[1]["status"] = "completed"
    /\ ops[Operator].op = "getTaskStatus"
    /\ ops[Operator].pc = "returned"
    /\ ops[Operator].taskId = "t1"
    /\ ops[Operator].value[1]["status"] = "completed"

\* C18: getTaskStatus(taskId) answers for a task in the active set with a
\* response of status streaming, without a call into the store; for any other
\* task it calls getTaskResult(taskId) and returns what that returns when it
\* is a response, and throws Task not found when it is null
C18_StatusOfTask ==
    [][\A k \in DOMAIN ops :
          /\ (Ended(ops[k]) /\ ops'[k] # ops[k] /\ ops'[k].op = "getTaskStatus") =>
                 IF ops'[k].taskId \in DOMAIN activeTasks
                 THEN /\ ops'[k].pc = "returned"
                      /\ ops'[k].value[1]["task_id"] = ops'[k].taskId
                      /\ ops'[k].value[1]["status"] = "streaming"
                      /\ UNCHANGED <<storeState, storeCallers>>
                 ELSE /\ ~Ended(ops'[k])
                      /\ clients'[k] = GetTaskResultCall(ops'[k].taskId)
          /\ (ops[k].op = "getTaskStatus" /\ ~Ended(ops[k]) /\ Ended(ops'[k])) =>
                 IF clients[k].value # <<>>
                 THEN ops'[k].pc = "returned" /\ ops'[k].value = clients[k].value
                 ELSE /\ ops'[k].pc = "threw"
                      /\ ops'[k].error = "Task not found: " \o ops[k].taskId]_vars

\* getTaskStatus has answered streaming for a task whose call is in flight
C18_Witness ==
    /\ ops[Operator].op = "getTaskStatus"
    /\ ops[Operator].pc = "returned"
    /\ ops[Operator].value[1]["status"] = "streaming"
    /\ ops[Operator].taskId \in DOMAIN activeTasks
    /\ submits[activeTasks[ops[Operator].taskId]].pc = "executing"

\* C19: healthCheck() never throws, and it returns true exactly when Redis and
\* PostgreSQL both answered memoryManager.healthCheck and the router holds an
\* available provider; else it returns false
C19_HealthyOnlyIfBothPass ==
    \A k \in DOMAIN ops :
        (ops[k].op = "healthCheck" /\ Ended(ops[k])) =>
            /\ ops[k].pc = "returned"
            /\ ops[k].value \in BOOLEAN
            /\ ops[k].value <=>
                  /\ clients[k].op = "healthCheck"
                  /\ clients[k].responded = {"redis", "pg"}
                  /\ \E n \in DOMAIN providers : providers[n].available

\* healthCheck has returned false because PostgreSQL did not answer, with
\* Redis answering and a provider available
C19_Witness ==
    /\ ops[Operator].op = "healthCheck"
    /\ ops[Operator].pc = "returned"
    /\ ops[Operator].value = FALSE
    /\ clients[Operator].responded = {"redis"}
    /\ \E n \in DOMAIN providers : providers[n].available

\* the taskCancelled events for taskId among the events from position from on
CancelledSince(events, from, taskId) ==
    {i \in DOMAIN events :
        i > from /\ events[i].event = "taskCancelled" /\ events[i].task_id = taskId}

\* C20: shutdown() first cancels every task active at the call, emitting one
\* taskCancelled for each and nothing else and leaving the active set empty,
\* with the connections, the router and every submitTask call as they were;
\* a connection is closed only by the memoryManager.shutdown that follows;
\* and the router is shut down only once that has settled, when shutdown
\* returns without regard to the submitTask calls still in flight
C20_ShutdownOrder ==
    [][\A k \in DOMAIN ops :
          /\ (Ended(ops[k]) /\ ops'[k] # ops[k] /\ ops'[k].op = "shutdown") =>
                 /\ activeTasks' = <<>>
                 /\ Len(emitted') = Len(emitted) + Cardinality(DOMAIN activeTasks)
                 /\ SubSeq(emitted', 1, Len(emitted)) = emitted
                 /\ \A t \in DOMAIN activeTasks :
                        Cardinality(CancelledSince(emitted', Len(emitted), t)) = 1
                 /\ clients'[k].op = "shutdown" /\ ~Ended(clients'[k])
                 /\ UNCHANGED <<connections, routerState, submits>>
          /\ connections' # connections =>
                 /\ ops[k].op = "shutdown" /\ ~Ended(ops[k])
                 /\ \A t \in ops[k].active :
                        CancelledSince(emitted, ops[k].emitted, t) # {}
                 /\ UNCHANGED <<currentProvider, ops>>
          /\ (ops[k].op = "shutdown" /\ ~Ended(ops[k]) /\ Ended(ops'[k])) =>
                 /\ clients[k].op = "shutdown" /\ Ended(clients[k])
                 /\ ops'[k].pc = "returned"
                 /\ currentProvider' = None
                 /\ UNCHANGED <<connections, submits>>
          /\ (currentProvider # None /\ currentProvider' = None) =>
                 ops[k].op = "shutdown" /\ ~Ended(ops[k]) /\ Ended(ops'[k])]_vars

\* shutdown has returned after cancelling two active tasks, closing both
\* connections and shutting the router down, while the agent of one of the
\* tasks has still not answered
C20_Witness ==
    /\ ops[Operator].op = "shutdown"
    /\ ops[Operator].pc = "returned"
    /\ ops[Operator].active = {"t1", "t2"}
    /\ Cancelled("t1") /\ Cancelled("t2")
    /\ connections = [redis |-> FALSE, pg |-> FALSE]
    /\ currentProvider = None
    /\ \E c \in DOMAIN submits :
          submits[c].pc = "executing" /\ submits[c].agentState = "pending"

(***************************************************************************)
(* Properties of the conversation history, under SpecHistoryAlone.         *)
(***************************************************************************)
\* the rows of a conversation in history, in insertion order
HistoryOf(history, conversationId) ==
    SelectSeq(history, LAMBDA row : row.conversation_id = conversationId)

\* C21: when no two updateConversationHistory calls overlap, the rows of every
\* conversation carry, in insertion order, the sequence numbers 1, 2, .., k,
\* and a step leaves the rows of a conversation as they were or appends one row
\* to them
C21_SequentialHistoryGapless ==
    [][\A conversationId \in ConversationIds :
          LET before == HistoryOf(conversationHistory, conversationId)
              after == HistoryOf(conversationHistory', conversationId)
          IN  /\ Len(after) \in {Len(before), Len(before) + 1}
              /\ SubSeq(after, 1, Len(before)) = before
              /\ \A i \in 1..Len(after) : after[i].sequence_number = i]_vars

\* calls that did not overlap have left two rows in c1 and, between them, one in c2
C21_Witness ==
    /\ \A c \in DOMAIN clients : Ended(clients[c])
    /\ Len(conversationHistory) = 3
    /\ conversationHistory[1].conversation_id = "c1"
    /\ conversationHistory[2].conversation_id = "c2"
    /\ conversationHistory[3].conversation_id = "c1"
    /\ conversationHistory[3].sequence_number = 2

(***************************************************************************)
(* Properties of the reference agent, under SpecAgent.                     *)
(***************************************************************************)
\* C22: processTask on a task whose input.content is undefined, null or the
\* empty string returns (it does not throw) a response with the task's id,
\* status failed, an error, no result, and no tokens and no cost
C22_AbsentContentFails ==
    \A k \in DOMAIN ops :
        (ops[k].op = "processTask" /\ ops[k].task.input.content \in {Undefined, Null, ""}) =>
            /\ ops[k].pc = "returned"
            /\ ops[k].value["task_id"] = ops[k].task.task_id
            /\ ops[k].value["status"] = "failed"
            /\ ops[k].value["error"] # Undefined
            /\ ops[k].value["result"] = Undefined
            /\ ops[k].value["metadata"].tokens_consumed = 0
            /\ ops[k].value["metadata"].cost = 0

\* processTask has answered a text task whose content is null
C22_Witness ==
    \E k \in DOMAIN ops :
        /\ ops[k].op = "processTask"
        /\ ops[k].task.input.type = "text"
        /\ ops[k].task.input.content = Null
        /\ ops[k].value["status"] = "failed"

\* two characters are the same letter, in whichever case
SameLetter(a, b) ==
    \/ a = b
    \/ \E i \in 1..Len(UpperCaseLetters) :
          {a, b} = {SubSeq(UpperCaseLetters, i, i), SubSeq(LowerCaseLetters, i, i)}

\* content holds word, the case of the letters set aside
Mentions(content, word) ==
    \E i \in 1..(Len(content) - Len(word) + 1) :
        \A j \in 1..Len(word) :
            SameLetter(SubSeq(content, i + j - 1, i + j - 1), SubSeq(word, j, j))

\* C23: processTask on a text task whose content is a non-empty string returns
\* a completed response with the task's id whose result is the summary when
\* the content mentions summarize in any case, else the analysis when it
\* mentions analyze, else the generation when it mentions generate, else the
\* general processing
C23_OneClassificationBranch ==
    \A k \in DOMAIN ops :
        (/\ ops[k].op = "processTask"
         /\ ops[k].task.input.type = "text"
         /\ ops[k].task.input.content \notin {Undefined, Null, ""}) =>
            /\ ops[k].pc = "returned"
            /\ ops[k].value["task_id"] = ops[k].task.task_id
            /\ ops[k].value["status"] = "completed"
            /\ ops[k].value["error"] = Undefined
            /\ ops[k].value["result"] =
                  IF Mentions(ops[k].task.input.content, "summarize") THEN "summary"
                  ELSE IF Mentions(ops[k].task.input.content, "analyze") THEN "analysis"
                  ELSE IF Mentions(ops[k].task.input.content, "generate") THEN "generation"
                  ELSE "general_processing"

\* processTask has answered a text task that asks in capitals for an analysis
C23_Witness ==
    \E k \in DOMAIN ops :
        /\ ops[k].op = "processTask"
        /\ ops[k].task.input.type = "text"
        /\ ops[k].task.input.content = "please ANALYZE it"
        /\ ops[k].value["result"] = "analysis"

\* C24: the agent's healthCheck() runs its text task through processTask and
\* returns (it does not throw) whether the response is completed, which it
\* is: healthCheck returns true
C24_AgentHealthy ==
    \A k \in DOMAIN ops :
        ops[k].op = "healthCheck" =>
            /\ ops[k].pc = "returned"
            /\ ops[k].response["task_id"] = "health-check"
            /\ ops[k].value = (ops[k].response["status"] = "completed")
            /\ ops[k].value = TRUE

\* healthCheck has returned
C24_Witness ==
    \E k \in DOMAIN ops :
        /\ ops[k].op = "healthCheck"
        /\ ops[k].pc = "returned"
        /\ ops[k].response["result"] = "general_processing"

(***************************************************************************)
(* More properties of the bus's operations, under SpecOps.                 *)
(***************************************************************************)
\* a response whose status is completed carries a result and no error, and
\* one whose status is failed carries an error and no result
OneOfResultAndError(response) ==
    /\ response["status"] = "completed" =>
          response["result"] # Undefined /\ response["error"] = Undefined
    /\ response["status"] = "failed" =>
          response["error"] # Undefined /\ response["result"] = Undefined

Phase(call) ==
    CASE call.pc = "idle"      -> 0
      [] call.pc = "hydrating" -> 1
      [] call.pc = "selected"  -> 2
      [] call.pc = "returned"  -> 4
      [] OTHER                 -> 3

\* no step takes a call back to an earlier phase; the agent is invoked only
\* by a call whose provider selection succeeded; and storeTaskResult is called
\* only when the agent's response has won the race
PhasesInOrder ==
    \A c \in DOMAIN submits :
        /\ Phase(submits'[c]) >= Phase(submits[c])
        /\ (submits[c].agentState = "none" /\ submits'[c].agentState # "none") =>
              /\ submits[c].pc = "selected"
              /\ submits'[c].pc = "executing"
              /\ SomeRankedAvailable(submits[c].task.policy.llm_ranking)
        /\ (clients'[c] # clients[c] /\ clients'[c].op = "storeTaskResult"
               /\ clients[c].op # "storeTaskResult") =>
              /\ submits[c].pc = "executing"
              /\ submits[c].agentState = "pending"
              /\ submits'[c].agentState = "resolved"
              /\ clients'[c].response = submits'[c].response[1]
        /\ submits'[c].pc = "returned" =>
              Outcome(c)'["status"] \in {"completed", "failed"}

\* C26: a submitTask call goes through its phases in order, hydration before
\* the selection of a provider, the selection before the agent, the agent's
\* response before the store, and never back; and when timers fire and the
\* store answers, every call made returns a completed or a failed response
C26_PhasesInOrder ==
    /\ [][PhasesInOrder]_vars
    /\ \A c \in {1} : (submits[c].pc # "idle") ~> (submits[c].pc = "returned")

\* a call has gone through every phase: it hydrated its context, selected a
\* provider, got the agent's response, stored it and returned it
C26_Witness ==
    \E c \in DOMAIN submits :
        /\ submits[c].pc = "returned"
        /\ submits[c].next = 1
        /\ submits[c].selected # <<>>
        /\ submits[c].agentState = "resolved"
        /\ Truthy(submits[c].task.context, "conversation_id")
        /\ submits[c].outcome = submits[c].response

(***************************************************************************)
(* Properties of LLMRouter.initialize, under SpecInitialize                *)
(***************************************************************************)
\* initialize() has returned
Initialized == \E k \in DOMAIN ops : ops[k].op = "initialize" /\ ops[k].pc = "returned"

\* C27: once initialize has returned, every registered provider's available
\* flag is true exactly when its probe succeeds (endpoint and apiKey both
\* defined); and if no provider is available then, selectOptimalLLM throws
\* "No available LLM providers" for every policy and healthCheck is false.
\* initialize has no throwing path in the model: each probe ends in an
\* assignment and the loop ends in RouterInitializeReturns.
C27_InitializeSetsAvailability ==
    Initialized =>
        /\ \A n \in DOMAIN providers :
              providers[n].available =
                  (providers[n].endpoint # Undefined /\ providers[n].apiKey # Undefined)
        /\ (\A n \in DOMAIN providers : ~providers[n].available) =>
              /\ \A policy \in Policies :
                    SelectOutcome(policy) = [ok |-> FALSE, value |-> NoProviderAvailable]
              /\ ~RouterHealthCheck

\* initialize returned with no provider available, one of them having an
\* endpoint but no key, and the caller's next selection was refused
C27_Witness ==
    /\ Initialized
    /\ \A n \in DOMAIN providers : ~providers[n].available
    /\ \E n \in DOMAIN providers :
          providers[n].endpoint # Undefined /\ providers[n].apiKey = Undefined
    /\ answers # <<>>
    /\ ~answers[Len(answers)].ok

(***************************************************************************)
(* More properties of the router, under SpecRouter                         *)
(***************************************************************************)
\* C28: under the cost strategy, when some ranked provider is available and
\* none of the ranked and available providers is within the budget, the call
\* does not throw: it returns the available provider that the ranking lists
\* first.
C28_CostFallsBackOnFirstRanked ==
    (routingStrategy = "cost" /\ RankedAvailable # {} /\ WithinBudget = {}) =>
        \A k \in 1..Len(answers) :
            /\ answers[k].ok
            /\ answers[k].value \in RankedAvailable
            /\ \A n \in RankedAvailable : FirstRank(answers[k].value) <= FirstRank(n)

\* nothing is within the budget, and the call returned a provider that is
\* not the cheapest of the ranked and available ones
C28_Witness ==
    /\ routingStrategy = "cost"
    /\ WithinBudget = {}
    /\ answers # <<>>
    /\ answers[1].ok
    /\ \E n \in RankedAvailable :
          providers[n].costPerToken < providers[answers[1].value].costPerToken

\* C29: under the latency strategy, when some ranked provider is available,
\* the call returns a ranked and available provider whose latency is the
\* least among the ranked and available ones, whatever the budget is.
C29_LatencyMinimum ==
    (routingStrategy = "latency" /\ RankedAvailable # {}) =>
        \A k \in 1..Len(answers) :
            /\ answers[k].ok
            /\ answers[k].value \in RankedAvailable
            /\ \A n \in RankedAvailable :
                  providers[answers[k].value].latencyMs <= providers[n].latencyMs

\* the call returned a provider over the budget that is faster than the
\* first-ranked one, which is available and within the budget
C29_Witness ==
    /\ routingStrategy = "latency"
    /\ answers # <<>>
    /\ answers[1].ok
    /\ providers[answers[1].value].costPerToken > request.cost_budget
    /\ request.llm_ranking[1] \in WithinBudget
    /\ providers[answers[1].value].latencyMs
          < providers[request.llm_ranking[1]].latencyMs

(***************************************************************************)
(* Properties of context hydration, under SpecHydration                    *)
(***************************************************************************)
\* getMemorySnapshot answers call c in this step
SnapshotFetched(c) ==
    /\ submits[c].pc = "hydrating"
    /\ clients[c].op = "getMemorySnapshot"
    /\ ~Ended(clients[c])
    /\ clients'[c] # clients[c]

\* loadTaskContext takes the answer of getMemorySnapshot in this step
SnapshotTaken(c) ==
    /\ submits[c].pc = "hydrating"
    /\ Ended(clients[c])
    /\ submits'[c] # submits[c]

\* every step of hydration does what the list of snapshots asks for
HydratesInOrder ==
    \A c \in DOMAIN submits :
        /\ SnapshotFetched(c) =>
              LET key == SnapshotKey(submits[c].snapshots[submits[c].next])
              IN  /\ clients'[c].pc = "returned"
                  /\ clients'[c].value \in
                        {<<>>} \cup {<<cache[k]>> : k \in {key} \cap DOMAIN cache}
        /\ SnapshotTaken(c) =>
              LET fetched == clients[c].value
                  old == submits[c].task.context
                  new == submits'[c].task.context
              IN  /\ IF fetched = <<>>
                     THEN new = old
                     ELSE /\ DOMAIN new = DOMAIN old \cup DOMAIN fetched[1]
                          /\ \A k \in DOMAIN fetched[1] : new[k] = fetched[1][k]
                          /\ \A k \in DOMAIN old \ DOMAIN fetched[1] : new[k] = old[k]
                  /\ IF submits[c].next < Len(submits[c].snapshots)
                     THEN /\ submits'[c].pc = "hydrating"
                          /\ submits'[c].next = submits[c].next + 1
                          /\ clients'[c] = GetMemorySnapshotCall(
                                               submits[c].snapshots[submits[c].next + 1])
                     ELSE submits'[c].pc = "selected"

\* C30: submitTask fetches the snapshots its task lists one after the other
\* in list order (it asks for the first when it is called, and for the next
\* when it has taken the answer for the one before); a fetch answers with
\* what the store holds under the id, or with nothing when the store holds
\* nothing there or the fetch fails, and never throws; an answer is merged
\* into the context so that its keys replace the context's, hence those of
\* the snapshots listed before it, and no answer leaves the context as it is;
\* after the last answer the call goes on to select a provider.
C30_HydrationInListOrder ==
    /\ [][HydratesInOrder]_vars
    /\ [](\A c \in DOMAIN submits :
             submits[c].pc = "hydrating" =>
                 /\ submits[c].next \in 1..Len(submits[c].snapshots)
                 /\ clients[c].op = "getMemorySnapshot"
                 /\ clients[c].snapshotId = submits[c].snapshots[submits[c].next])

\* a task listed s1 then s2, which both set topic; both were fetched, and the
\* call returned the agent's response for the context in which s2's topic
\* won and the conversation is s1's
C30_Witness ==
    \E c \in DOMAIN submits :
        /\ submits[c].pc = "returned"
        /\ submits[c].snapshots = <<"s1", "s2">>
        /\ {"topic", "conversation_id"} \subseteq DOMAIN submits[c].task.context
        /\ submits[c].task.context["topic"] = "b"
        /\ submits[c].task.context["conversation_id"] = "c2"
        /\ submits[c].outcome = submits[c].response
        /\ submits[c].agentState = "resolved"

(***************************************************************************)
(* More properties of the embedding store, under SpecEmbeddings            *)
(***************************************************************************)
\* caller c's storeEmbedding call settles in this step
EmbeddingStored(c) ==
    /\ clients[c].op = "storeEmbedding"
    /\ clients[c].pc = "upsert"
    /\ clients'[c].pc \in {"returned", "threw"}

\* what a settling storeEmbedding call does to vector_embeddings
UpsertsOneRow ==
    \A c \in DOMAIN clients :
        EmbeddingStored(c) =>
            LET given == clients[c].embedding
            IN  IF clients'[c].pc = "threw"
                THEN embeddings' = embeddings
                ELSE /\ DOMAIN embeddings' = DOMAIN embeddings \cup {given.id}
                     /\ \A e \in DOMAIN embeddings \ {given.id} :
                           embeddings'[e] = embeddings[e]
                     /\ embeddings'[given.id].content = given.content
                     /\ embeddings'[given.id].embedding = given.vector
                     /\ embeddings'[given.id].metadata = given.metadata
                     /\ embeddings'[given.id].tenant_id =
                           IF given.id \in DOMAIN embeddings
                           THEN embeddings[given.id].tenant_id
                           ELSE clients[c].tenantId

\* C31: a storeEmbedding(embedding, tenantId) call that returns leaves under
\* embedding.id a row with the content, vector and metadata passed; the
\* row's tenant_id is the one it had when the id existed and tenantId when
\* the id is new; every other row is as it was, and no row is added but the
\* one of a new id (the table is keyed by id, so it holds one row per id).  A
\* call that throws changes nothing.
C31_UpsertReplacesOneRow == [][UpsertsOneRow]_vars

\* a call returned that gave an existing id new content under another
\* tenant: the row has the content passed and the tenant_id it had
C31_Witness ==
    \E c \in DOMAIN clients :
        /\ clients[c].op = "storeEmbedding"
        /\ clients[c].pc = "returned"
        /\ Cardinality(DOMAIN embeddings) > 1
        /\ embeddings[clients[c].embedding.id].tenant_id # clients[c].tenantId
        /\ embeddings[clients[c].embedding.id].content = clients[c].embedding.content

\* what searchSimilarEmbeddings may return to tenantId, for every query
SearchesOf(tenantId) ==
    [queryVector \in Vectors, limit \in 0..MaxLimit |->
        SearchResults(SearchSimilarEmbeddingsCall(queryVector, tenantId, limit))]

\* C37: a storeEmbedding call made for one tenant leaves what
\* searchSimilarEmbeddings may return to every other tenant as it was, also
\* when the call passes the id of a row of another tenant.
C37_UpsertKeepsOtherTenantsSearches ==
    [][\A c \in DOMAIN clients :
          EmbeddingStored(c) =>
              \A tenantId \in TenantIds \ {clients[c].tenantId} :
                  SearchesOf(tenantId)' = SearchesOf(tenantId)]_vars

(***************************************************************************)
(* More properties of the bus, under Spec                                  *)
(***************************************************************************)
\* C32: when the listeners of taskCompleted or taskFailed run, the task of
\* the event is no longer in the active set.
C32_InactiveWhenNotified ==
    \A i \in DOMAIN emitted :
        emitted[i].event \in {"taskCompleted", "taskFailed"} =>
            emitted[i].task_id \notin emitted[i].active

\* the rows of conversation_history that name the task
HistoryRowsOfTask(taskId) ==
    {i \in DOMAIN conversationHistory : conversationHistory[i].task_id = taskId}

\* task.context.conversation_id is set
InConversation(task) ==
    /\ "conversation_id" \in DOMAIN task.context
    /\ task.context["conversation_id"] \notin {Undefined, Null, ""}

\* call c returns a response of status completed in this step
ReturnsCompleted(c) ==
    /\ submits[c].pc # "returned"
    /\ submits'[c].pc = "returned"
    /\ submits'[c].outcome[1]["status"] = "completed"

\* C33: when submitTask returns a response of status completed, and emits
\* taskCompleted for it, storeTaskResult has already returned for that
\* response and task_results holds a row for the task; if the task's context
\* has a conversation_id, conversation_history holds exactly one row for the
\* task, in that conversation, and the call for it was made when the result
\* was stored and no row for the task existed; if the context has none,
\* conversation_history holds no row for the task.
C33_PersistedBeforeReturn ==
    [][\A c \in DOMAIN submits :
          LET task == submits[c].task
          IN  /\ ReturnsCompleted(c) =>
                    /\ persisted[task.task_id] = submits'[c].outcome
                    /\ task.task_id \in DOMAIN taskResults
                    /\ Len(emitted') = Len(emitted) + 1
                    /\ emitted'[Len(emitted')].event = "taskCompleted"
                    /\ emitted'[Len(emitted')].response = submits'[c].outcome[1]
                    /\ conversationHistory' = conversationHistory
                    /\ IF InConversation(task)
                       THEN /\ Cardinality(HistoryRowsOfTask(task.task_id)) = 1
                            /\ \A i \in HistoryRowsOfTask(task.task_id) :
                                  conversationHistory[i].conversation_id =
                                      task.context["conversation_id"]
                       ELSE HistoryRowsOfTask(task.task_id) = {}
              /\ (submits[c].pc # "history" /\ submits'[c].pc = "history") =>
                    /\ persisted[task.task_id] = submits[c].response
                    /\ HistoryRowsOfTask(task.task_id) = {}]_vars

\* a call returned a completed response for a task in a conversation: the
\* result is stored and the history has the task's row
C33_Witness ==
    \E c \in DOMAIN submits :
        /\ submits[c].pc = "returned"
        /\ submits[c].outcome[1]["status"] = "completed"
        /\ InConversation(submits[c].task)
        /\ persisted[submits[c].task.task_id] = submits[c].outcome
        /\ Cardinality(HistoryRowsOfTask(submits[c].task.task_id)) = 1

(***************************************************************************)
(* Properties of the race in submitTask, under SpecRace                    *)
(***************************************************************************)
\* nothing of the task of a call whose timer won is stored or announced as
\* completed
NothingOfTheLoser(c) ==
    LET taskId == submits[c].task.task_id
    IN  /\ persisted[taskId] = <<>>
        /\ taskId \notin DOMAIN taskResults
        /\ TaskResultKey(taskId) \notin DOMAIN cache
        /\ HistoryRowsOfTask(taskId) = {}
        /\ \A i \in DOMAIN emitted :
              emitted[i].task_id = taskId => emitted[i].event = "taskFailed"

\* the loser of a race settles in this step
LoserSettles(c) ==
    \/ /\ TimerWon(c)
       /\ submits[c].agentState = "pending"
       /\ submits'[c].agentState # "pending"
    \/ ops'[c] # ops[c]

\* C34: once the timer has won the race of a submitTask call, nothing of
\* the task is stored, appended to the conversation history or emitted as
\* taskCompleted, before or after the agent's processTask settles; the step
\* in which the loser of a race settles (the agent after the timer, or the
\* timer after the agent) changes neither the store, the events, the metrics
\* or the active set nor what the call returns or has returned.
C34_LoserChangesNothing ==
    /\ [](\A c \in DOMAIN submits : TimerWon(c) => NothingOfTheLoser(c))
    /\ [][\A c \in DOMAIN submits :
             /\ LoserSettles(c) =>
                   /\ UNCHANGED <<storeState, storeCallers, activeTasks, emitted, metrics>>
                   /\ submits'[c].pc = submits[c].pc
                   /\ submits'[c].response = submits[c].response
                   /\ submits'[c].outcome = submits[c].outcome
             /\ submits[c].pc = "returned" =>
                   /\ submits'[c].pc = "returned"
                   /\ submits'[c].outcome = submits[c].outcome]_vars

\* the timer of a call won, and the agent's processTask resolved afterwards
C34_Witness ==
    \E c \in DOMAIN submits :
        /\ TimerWon(c)
        /\ submits[c].agentState = "resolved"
        /\ InConversation(submits[c].task)

(***************************************************************************)
(* Properties of failed calls and the store, under SpecOps                 *)
(***************************************************************************)
\* C35: when submitTask has returned a failed response for a task id that
\* had no stored result before the call, the cache holds no entry for the
\* id, and a getTaskStatus call for the id made after that return does not
\* return a response of status completed.
C35_FailedLeavesNothingCompleted ==
    \A c \in DOMAIN submits :
        (submits[c].pc = "returned" /\ submits[c].outcome[1]["status"] = "failed") =>
            /\ TaskResultKey(submits[c].task.task_id) \notin DOMAIN cache
            /\ \A k \in DOMAIN ops :
                  (/\ ops[k].op = "getTaskStatus"
                   /\ ops[k].pc = "returned"
                   /\ ops[k].taskId = submits[c].task.task_id
                   /\ c \in ops[k].finished) =>
                      ops[k].value[1]["status"] # "completed"

(***************************************************************************)
(* Properties of concurrent calls of the store, under SpecOverwrite        *)
(***************************************************************************)
\* what getTaskResult(taskId) returns when it is called now, no other call is
\* in progress and none of its commands fails
FetchedNow(taskId) ==
    LET afterGet == GetTaskResultStep(GetTaskResultCall(taskId), FALSE)
        afterSelect == IF Ended(afterGet) THEN afterGet
                       ELSE GetTaskResultStep(afterGet, FALSE)
        afterRecache == IF Ended(afterSelect) THEN afterSelect
                        ELSE GetTaskResultStep(afterSelect, FALSE)
    IN  afterRecache.value

\* C36: once storeTaskResult("t1", r2), which overwrites r1, has returned
\* and no getTaskResult("t1") call is in progress, a getTaskResult("t1") call
\* returns the result of r2, and the cache entry of t1, when there is one,
\* holds r2's result, whatever fetches ran while r2 was stored.
C36_OverwriteWins ==
    (/\ clients[Writer].op = "storeTaskResult"
     /\ clients[Writer].pc = "returned"
     /\ \A c \in Readers : Ended(clients[c])) =>
        /\ FetchedNow("t1") # <<>>
        /\ FetchedNow("t1")[1]["result"] = SecondResponse["result"]

(***************************************************************************)
(* The frame of selectOptimalLLM, under SpecRouter                         *)
(***************************************************************************)
\* the observed caller's selectOptimalLLM call runs in this step
Selects == Len(answers') = Len(answers) + 1

\* C38: selectOptimalLLM, under every strategy and for every caller, leaves
\* the registry as it was: the same names in the same order, each with the
\* same available flag, cost and latency; the call of the observed caller
\* sets the current provider to the name it returns, and leaves the current
\* provider as it was when it throws No available LLM providers.
C38_SelectLeavesRegistry ==
    [][/\ providers' = providers
       /\ Registered' = Registered
       /\ routingStrategy' = routingStrategy
       /\ Selects =>
             LET answer == answers'[Len(answers')]
             IN  IF answer.ok
                 THEN /\ answer.value \in DOMAIN providers
                      /\ currentProvider' = answer.value
                 ELSE /\ answer.value = NoProviderAvailable
                      /\ currentProvider' = currentProvider]_vars

\* under the latency strategy, which sorts the candidates, a call returned a
\* provider that the policy does not rank first; a later call returned the
\* same, and the registry still holds that provider as available
C38_Witness ==
    /\ routingStrategy = "latency"
    /\ Len(answers) = MaxCalls
    /\ answers[1].ok
    /\ answers[1].value # request.llm_ranking[1]
    /\ request.llm_ranking[1] \in RankedAvailable
    /\ answers[MaxCalls] = answers[1]
    /\ currentProvider = answers[1].value
    /\ providers[answers[1].value].available

(***************************************************************************)
(* The events of submitTask, under Spec                                    *)
(***************************************************************************)
\* the events emitted for a task
EventsOfTask(taskId) == {i \in DOMAIN emitted : emitted[i].task_id = taskId}

\* call c has returned the response its agent resolved with, of status failed
AgentReturnedFailed(c) ==
    /\ submits[c].pc = "returned"
    /\ submits[c].response # <<>>
    /\ submits[c].outcome = submits[c].response
    /\ submits[c].outcome[1]["status"] = "failed"

\* C39: a submitTask call that has returned has emitted one event, which is
\* taskCompleted when the returned response has status completed, and
\* taskFailed when it has status failed; a result is stored for the task
\* only when the returned response has status completed; and when the call
\* returned a response of status failed that the agent resolved with,
\* getTaskResult, which getTaskStatus passes on, returns no response of
\* status completed for the task.
C39_EventMatchesResponse ==
    \A c \in DOMAIN submits :
        submits[c].pc = "returned" =>
            LET taskId == submits[c].task.task_id
                status == submits[c].outcome[1]["status"]
            IN  /\ Cardinality(EventsOfTask(taskId)) = 1
                /\ \A i \in EventsOfTask(taskId) :
                      /\ emitted[i].response = submits[c].outcome[1]
                      /\ emitted[i].event =
                            IF status = "completed" THEN "taskCompleted" ELSE "taskFailed"
                /\ (taskId \in DOMAIN persisted /\ persisted[taskId] # <<>>) =>
                      status = "completed"
                /\ AgentReturnedFailed(c) =>
                      \/ FetchedNow(taskId) = <<>>
                      \/ FetchedNow(taskId)[1]["status"] # "completed"

(***************************************************************************)
(* The active set under two calls with one task id, under SpecSameId       *)
(***************************************************************************)
\* C40: while a submitTask call is executing (the agent is called and the
\* race is open) and nobody has called cancelTask, the task's id is in the
\* active set, so that getTaskStatus answers streaming for it, whatever other
\* submitTask calls do, also one that carries the same task id and ends
\* first.
C40_ActiveWhileExecuting ==
    \A c \in DOMAIN submits :
        (submits[c].pc = "executing" /\ ~Cancelled(submits[c].task.task_id)) =>
            IsActive(submits[c].task.task_id)

====
